---- MODULE Spec2Model ----
(***************************************************************************)
(* Model of the context-aware hybrid lyric line classifier of slidegen     *)
(* (src/ai/classifier.js, kept here as src/unnamed/part_002) together with *)
(* the embedding provider it calls (src/ai/model.js, src/unnamed/part_003).*)
(*                                                                         *)
(* Text is modelled character by character: a line is a TLA+ string, its   *)
(* characters are one-character strings, and the JavaScript regular        *)
(* expressions of the source are kept as syntax trees that a small matcher *)
(* interprets.  Similarities and confidences are exact decimals in         *)
(* millionths (Unit == 1.0); the source computes them in IEEE doubles, so  *)
(* the model is the real-arithmetic reading of the code.                   *)
(***************************************************************************)
EXTENDS Integers, Sequences, FiniteSets, TLC

(***************************************************************************)
(* Characters and strings                                                  *)
(***************************************************************************)
UpperChars == "ABCDEFGHIJKLMNOPQRSTUVWXYZ"
LowerChars == "abcdefghijklmnopqrstuvwxyz"
DigitChars == "0123456789"
PunctChars == "[]():!*~#@-_'.,?"
SpaceChars == " \t"

\* The characters of a string, as a sequence of one-character strings.
Chars(s) == [i \in 1..Len(s) |-> SubSeq(s, i, i)]

CharSet(s) == {SubSeq(s, i, i) : i \in 1..Len(s)}

Upper == CharSet(UpperChars)
Lower == CharSet(LowerChars)
Digit == CharSet(DigitChars)
Space == CharSet(SpaceChars)
\* \w of a JavaScript regular expression
Word == Upper \cup Lower \cup Digit \cup {"_"}
\* every character a modelled line can hold ('.' of a regular expression:
\* lines hold no line terminator)
AnyChar == Word \cup Space \cup CharSet(PunctChars)

\* String.prototype.toLowerCase / toUpperCase on one character
LowerOf == [c \in AnyChar |->
              IF c \in Upper
                THEN LET i == CHOOSE k \in 1..26 : SubSeq(UpperChars, k, k) = c
                     IN SubSeq(LowerChars, i, i)
                ELSE c]
UpperOf == [c \in AnyChar |->
              IF c \in Lower
                THEN LET i == CHOOSE k \in 1..26 : SubSeq(LowerChars, k, k) = c
                     IN SubSeq(UpperChars, i, i)
                ELSE c]

RECURSIVE Join(_)
\* the string made of a sequence of characters
Join(cs) == IF cs = <<>> THEN "" ELSE Head(cs) \o Join(Tail(cs))

\* String.prototype.trim, on a sequence of characters
TrimChars(cs) ==
  LET keep == {i \in 1..Len(cs) : cs[i] \notin Space}
  IN IF keep = {} THEN <<>>
     ELSE LET a == CHOOSE i \in keep : \A j \in keep : i <= j
              b == CHOOSE i \in keep : \A j \in keep : i >= j
          IN SubSeq(cs, a, b)

Trim(s) == Join(TrimChars(Chars(s)))

\* trimmed.split(/\s+/).length of a trimmed string: one more than the number
\* of whitespace runs ("" splits into [""], length 1)
SplitCount(cs) ==
  1 + Cardinality({i \in 1..Len(cs) :
                     cs[i] \in Space /\ (i = 1 \/ cs[i - 1] \notin Space)})

(***************************************************************************)
(* Regular expressions: syntax trees and the matcher                       *)
(***************************************************************************)
Cls(S) == <<"cls", S>>
Cat(rs) == <<"cat", rs>>
Alt(rs) == <<"alt", rs>>
\* r{lo,hi}, and r{lo,} when unbounded
Rep(r, lo, hi) == <<"rep", r, lo, hi, FALSE>>
RepFrom(r, lo) == <<"rep", r, lo, lo, TRUE>>
Opt(r) == Rep(r, 0, 1)
Star(r) == RepFrom(r, 0)
Plus(r) == RepFrom(r, 1)
\* a literal string
Lit(s) == Cat([i \in 1..Len(s) |-> Cls({SubSeq(s, i, i)})])
\* an alternation of literal strings
Lits(ss) == Alt([i \in 1..Len(ss) |-> Lit(ss[i])])

InCls(c, S, ci) == IF ci THEN LowerOf[c] \in {LowerOf[x] : x \in S} ELSE c \in S

RECURSIVE Ends(_, _, _, _), CatEnds(_, _, _, _, _), RepEnds(_, _, _, _, _, _, _)
\* The positions at which a match of re can end when it starts at a position
\* of P (positions are counts of consumed characters, 0..Len(cs)).  A
\* backtracking matcher finds a match iff one exists, so the set of reachable
\* end positions decides RegExp.prototype.test; ci is the i flag.
Ends(re, cs, ci, P) ==
  CASE re[1] = "cls" ->
         {p + 1 : p \in {q \in P : q < Len(cs) /\ InCls(cs[q + 1], re[2], ci)}}
    [] re[1] = "cat" -> CatEnds(re[2], 1, cs, ci, P)
    [] re[1] = "alt" -> UNION {Ends(re[2][k], cs, ci, P) : k \in DOMAIN re[2]}
    [] re[1] = "rep" -> RepEnds(re[2], re[3], re[4], re[5], cs, ci, P)

CatEnds(rs, k, cs, ci, P) ==
  IF k > Len(rs) \/ P = {} THEN P
  ELSE CatEnds(rs, k + 1, cs, ci, Ends(rs[k], cs, ci, P))

\* lo repetitions are still owed; after them up to hi - lo more (any number
\* when unbounded)
RepEnds(r, lo, hi, unbounded, cs, ci, P) ==
  IF P = {} THEN {}
  ELSE IF lo > 0
    THEN RepEnds(r, lo - 1, hi - 1, unbounded, cs, ci, Ends(r, cs, ci, P))
  ELSE IF unbounded
    THEN P \cup RepEnds(r, 0, 0, TRUE, cs, ci, Ends(r, cs, ci, P) \ P)
  ELSE IF hi <= 0 THEN P
  ELSE P \cup RepEnds(r, 0, hi - 1, FALSE, cs, ci, Ends(r, cs, ci, P))

\* /^re$/.test(cs)
TestFull(re, ci, cs) == Len(cs) \in Ends(re, cs, ci, {0})
\* /re/.test(cs)
TestSearch(re, ci, cs) == Ends(re, cs, ci, 0..Len(cs)) # {}
\* /^re/.test(cs)
TestPrefix(re, ci, cs) == Ends(re, cs, ci, {0}) # {}
\* /re$/.test(cs)
TestSuffix(re, ci, cs) == Len(cs) \in Ends(re, cs, ci, 0..Len(cs))

\* \b: a word character on exactly one side of position p
WordBoundary(cs, p) ==
  (p > 0 /\ cs[p] \in Word) # (p < Len(cs) /\ cs[p + 1] \in Word)

\* /\bre\b/.test(cs)
TestWord(re, ci, cs) ==
  \E p \in 0..Len(cs) :
    /\ WordBoundary(cs, p)
    /\ \E q \in Ends(re, cs, ci, {p}) : WordBoundary(cs, q)

(***************************************************************************)
(* Pattern rule sets                                                       *)
(***************************************************************************)
S0 == Star(Cls(Space))
S1 == Plus(Cls(Space))
Digits0 == Star(Cls(Digit))
Digits1 == Plus(Cls(Digit))
\* (?:\s*:\s*.+?)
Desc == Cat(<<S0, Lit(":"), S0, Plus(Cls(AnyChar))>>)
\* /^\[r(?:\s*:\s*.+?)?\]$/i
Br(r) == [re |-> Cat(<<Lit("["), r, Opt(Desc), Lit("]")>>), ci |-> TRUE]
\* /^\[r\]$/i
BrPlain(r) == [re |-> Cat(<<Lit("["), r, Lit("]")>>), ci |-> TRUE]
\* w1\s+w2\s+...
Phrase(ws) ==
  Cat([i \in 1..(2 * Len(ws) - 1) |->
         IF i % 2 = 1 THEN Lit(ws[(i + 1) \div 2]) ELSE S1])
\* [\s-]?
SpOrDash == Opt(Cls(Space \cup {"-"}))
PreChorus == Cat(<<Lit("PRE"), SpOrDash, Lit("CHORUS")>>)
PostChorus == Cat(<<Lit("POST"), SpOrDash, Lit("CHORUS")>>)
\* \((?:x|X|×)\d+\) ; the multiplication sign is outside the modelled alphabet
RepeatSuffix == Cat(<<Lit("("), Cls({"x", "X"}), Digits1, Lit(")")>>)

standardBracketed == <<
  Br(Cat(<<Lit("Verse"), S0, Digits0>>)),
  Br(Lit("Chorus")),
  Br(Cat(<<Lit("Pre"), SpOrDash, Lit("Chor"), Lits(<<"us", "ous">>)>>)),
  Br(Cat(<<Lit("Post"), SpOrDash, Lit("Chorus")>>)),
  Br(Lit("Bridge")),
  Br(Lit("Intro")),
  Br(Lit("Outro")),
  Br(Lit("Hook")),
  Br(Lit("Refrain")),
  Br(Lit("Interlude")),
  Br(Lit("Breakdown")),
  Br(Lit("Skit")),
  Br(Lit("Instrumental")),
  Br(Phrase(<<"Instrumental", "Break">>)),
  Br(Phrase(<<"Instrumental", "Intro">>)),
  Br(Phrase(<<"Instrumental", "Outro">>)),
  Br(Cat(<<Opt(Cat(<<Plus(Cls(Word)), S1>>)), Lit("Solo")>>)),
  Br(Lit("Scatting")),
  Br(Lit("Yodeling")),
  Br(Phrase(<<"Non-Lyrical", "Vocals">>)),
  Br(Lit("Segue")),
  Br(Phrase(<<"Dance", "Break">>)),
  Br(Lit("Rap")),
  Br(Lit("Dance")),
  Br(Lit("Overture")),
  Br(Lit("Recitative")),
  Br(Lit("Aria")),
  Br(Lit("Duet")),
  Br(Lit("Ensemble")),
  Br(Lit("Finale")),
  BrPlain(Cat(<<Lits(<<"Crowd", "Audience">>), S1,
                Lits(<<"Cheering", "Applause", "Noise">>)>>)),
  BrPlain(Cat(<<Lits(<<"Phone", "Door", "Thunder", "Rain", "Footsteps">>), S0,
                Opt(Lits(<<"Ringing", "Slam", "Sounds">>))>>)),
  Br(Phrase(<<"Field", "Recording">>)),
  Br(Cat(<<Phrase(<<"Sound", "Effect">>), Opt(Lit("s"))>>)),
  BrPlain(Phrase(<<"Ambient", "Section">>)),
  BrPlain(Phrase(<<"Noise", "Interlude">>)),
  BrPlain(Phrase(<<"Glitch", "Section">>)),
  Br(Lit("Drone")),
  BrPlain(Lit("Improvisation")),
  BrPlain(Phrase(<<"Backwards", "Vocals">>)),
  Br(Phrase(<<"Stage", "Direction">>)),
  BrPlain(Phrase(<<"Lighting", "Cue">>)),
  BrPlain(Cat(<<Lit("Fade"), S1, Lits(<<"In", "Out">>)>>)),
  Br(Phrase(<<"Beat", "Switch">>)),
  Br(Phrase(<<"Tempo", "Change">>)),
  Br(Phrase(<<"Key", "Change">>)),
  Br(Phrase(<<"Acapella", "Section">>)),
  Br(Phrase(<<"Call", "and", "Response">>)),
  Br(Lit("Beatboxing")),
  Br(Cat(<<Lits(<<"Whispered", "Screamed">>), S1, Lit("Vocals")>>)),
  Br(Phrase(<<"Vocal", "Run">>)),
  BrPlain(Phrase(<<"Hidden", "Track">>)),
  Br(Cat(<<Lit("Bonus"), S1, Lits(<<"Verse", "Track">>)>>)),
  Br(Cat(<<Lits(<<"Acoustic", "Demo", "Live">>), S1, Lit("Version")>>)),
  BrPlain(Phrase(<<"Credits", "Roll">>)) >>

alphanumericCodes == <<
  [re |-> Cat(<<Lit("V"), Digits1>>), ci |-> TRUE],
  [re |-> Cat(<<Lit("C"), Digits1>>), ci |-> TRUE],
  [re |-> Cat(<<Lit("B"), Digits1>>), ci |-> TRUE] >>

\* commonMisspellings with the verse misspellings taken without their number
commonMisspellingsNoNumber == <<
  [re |-> Lits(<<"Chrous", "Chrus", "Chrorus", "Chors", "CHROUS", "CHRUS">>),
   ci |-> TRUE],
  [re |-> Lits(<<"Virse", "Vers", "Vrs", "VIRSE", "VERS", "VRS">>), ci |-> TRUE],
  [re |-> Lits(<<"Briddge", "Brige", "Bridg", "BRIDDGE", "BRIGE">>),
   ci |-> TRUE],
  [re |-> Lits(<<"Inro", "Intro", "INRO">>), ci |-> TRUE],
  [re |-> Cat(<<Lit("CHORU"), Cls({"S", "5"})>>), ci |-> TRUE],
  [re |-> Cat(<<Lit("VER"), Cls({"S", "5"}), Opt(Lit("E"))>>), ci |-> TRUE] >>

commonMisspellings == <<
  [re |-> Lits(<<"Chrous", "Chrus", "Chrorus", "Chors", "CHROUS", "CHRUS">>),
   ci |-> TRUE],
  [re |-> Cat(<<Lits(<<"Virse", "Vers", "Vrs", "VIRSE", "VERS", "VRS">>),
                S0, Digits0>>),
   ci |-> TRUE],
  [re |-> Lits(<<"Briddge", "Brige", "Bridg", "BRIDDGE", "BRIGE">>),
   ci |-> TRUE],
  [re |-> Lits(<<"Inro", "Intro", "INRO">>), ci |-> TRUE],
  [re |-> Cat(<<Lit("CHORU"), Cls({"S", "5"})>>), ci |-> TRUE],
  [re |-> Cat(<<Lit("VER"), Cls({"S", "5"}), Opt(Lit("E")), S0, Digits0>>),
   ci |-> TRUE] >>

RomanOrDigit == Cls({"I", "V", "X"} \cup Digit)

parts == <<
  [re |-> Cat(<<Lit("Part"), S1, Plus(RomanOrDigit),
                Opt(Cat(<<S0, Lit(":"), S0, Plus(Cls(AnyChar))>>))>>),
   ci |-> TRUE],
  [re |-> Cat(<<Lit("PART"), S1, Plus(RomanOrDigit)>>), ci |-> TRUE] >>

withRepeats == <<
  [re |-> Cat(<<Alt(<<Lit("VERSE"), Lit("CHORUS"), Lit("BRIDGE"), Lit("INTRO"),
                      Lit("OUTRO"), Lit("HOOK"), PreChorus, PostChorus>>),
                S0, RepeatSuffix>>),
   ci |-> TRUE],
  [re |-> Cat(<<Lit("["),
                Lits(<<"Verse", "Chorus", "Bridge", "Intro", "Outro", "Hook",
                       "Pre-Chorus", "Post-Chorus">>),
                S0, Digits0, Lit("]"), S0, RepeatSuffix>>),
   ci |-> TRUE] >>

timestamps == <<
  [re |-> Cat(<<Opt(Lit("[")),
                Opt(Cat(<<Rep(Cls(Digit), 1, 2), Lit(":")>>)),
                Rep(Cls(Digit), 1, 2), Lit(":"), Rep(Cls(Digit), 2, 2),
                Opt(Lit("]"))>>),
   ci |-> FALSE],
  [re |-> Cat(<<Lit("@"), S0, Rep(Cls(Digit), 1, 2), Lit(":"),
                Rep(Cls(Digit), 2, 2)>>),
   ci |-> FALSE] >>

sections == <<
  [re |-> Cat(<<Opt(Lit("[")), Plus(Cls({"I", "V", "X"})), Opt(Lit("]"))>>),
   ci |-> FALSE],
  [re |-> Cat(<<Lit("Section"), S1, Cls(Upper)>>), ci |-> TRUE],
  [re |-> Cat(<<Lit("Movement"), S1, Digits1>>), ci |-> TRUE],
  [re |-> Cat(<<Lit("#"), Digits1>>), ci |-> FALSE] >>

NumberWord == Lits(<<"ONE", "TWO", "THREE", "FOUR", "FIVE">>)

singleWordStructural == <<
  [re |-> Alt(<<Lit("VERSE"), Lit("CHORUS"), Lit("BRIDGE"), Lit("INTRO"),
                Lit("OUTRO"), Lit("HOOK"), Lit("REFRAIN"), Lit("INTERLUDE"),
                Lit("INSTRUMENTAL"), Lit("BREAKDOWN"), Lit("DROP"), Lit("BEAT"),
                Lit("RAP"), Lit("ACAPELLA"), PreChorus, PostChorus>>),
   ci |-> TRUE],
  [re |-> Cat(<<Alt(<<Lit("VERSE"), PreChorus, PostChorus>>), S1, Digits1>>),
   ci |-> TRUE],
  [re |-> Cat(<<Lits(<<"VERSE", "CHORUS", "BRIDGE">>), S1, NumberWord>>),
   ci |-> TRUE],
  [re |-> Cat(<<Lit("FINAL"), S1, Lits(<<"VERSE", "CHORUS", "BRIDGE">>)>>),
   ci |-> TRUE],
  [re |-> Cat(<<Lits(<<"INSTRUMENTAL", "GUITAR", "DRUM", "BASS", "PIANO", "SAX",
                       "SAXOPHONE">>),
                S1, Lits(<<"BREAK", "SOLO">>)>>),
   ci |-> TRUE],
  [re |-> Cat(<<Lit("CHORUS"), S1, Lit("x"), Digits1>>), ci |-> TRUE],
  [re |-> Lits(<<"OVERTURE", "RECITATIVE", "ARIA", "DUET", "ENSEMBLE",
                 "FINALE">>),
   ci |-> TRUE],
  [re |-> Phrase(<<"DANCE", "BREAK">>), ci |-> TRUE],
  [re |-> Cat(<<Lits(<<"AMBIENT", "NOISE", "GLITCH", "DRONE", "IMPROVISATION">>),
                S1, Lits(<<"SECTION", "INTERLUDE">>)>>),
   ci |-> TRUE] >>

allCapsShort == <<
  [re |-> Cat(<<Cls(Upper), Rep(Cls(Upper \cup Space \cup {"-"}), 1, 18),
                Cls(Upper)>>),
   ci |-> FALSE] >>

directions == <<
  [re |-> Cat(<<Lit("("),
                Alt(<<Lit("Repeat"), Lit("Softly"), Lit("Echo"),
                      Lit("With feeling"), Lit("Ad-lib")>>),
                Lit(")")>>),
   ci |-> TRUE],
  [re |-> Cat(<<Lit("*"), Plus(Cls(AnyChar \ {"*"})), Lit("*")>>), ci |-> FALSE],
  [re |-> Cat(<<Lit("~"), Plus(Cls(AnyChar \ {"~"})), Lit("~")>>), ci |-> FALSE] >>

\* AnyMatch with the patterns taken without their ^ and $ anchors
AnyMatchUnanchored(patterns, cs) ==
  \E k \in DOMAIN patterns : TestSearch(patterns[k].re, patterns[k].ci, cs)

\* some pattern of the list matches the whole of cs
AnyMatch(patterns, cs) ==
  \E k \in DOMAIN patterns : TestFull(patterns[k].re, patterns[k].ci, cs)

(***************************************************************************)
(* Pure functions of the classifier                                        *)
(***************************************************************************)
Unit == 1000000
\* CONFIDENCE_THRESHOLD = 0.10
CONFIDENCE_THRESHOLD == 100000
\* the confidence below which a pass-1 header is re-evaluated (0.3)
LOW_HEADER_CONFIDENCE == 300000
\* countSurroundingLyrics(results, index, windowSize = 2)
WINDOW_SIZE == 2

RECURSIVE normalizeChars(_)
normalizeChars(cs) ==
  IF cs = <<>> THEN <<>>
  ELSE LET c == LowerOf[Head(cs)]
       IN (IF c \in Word \cup Space THEN <<c>> ELSE <<>>)
            \o normalizeChars(Tail(cs))

\* normalizeForML: lower case, every character outside [\w\s] removed, trimmed
normalizeForML(text) == Join(TrimChars(normalizeChars(Chars(text))))

\* cacheKeyOf keeping the text as it is
cacheKeyRaw(text) == text

\* the key under which embedText caches a text: text.trim().toLowerCase()
cacheKeyOf(text) ==
  LET cs == TrimChars(Chars(text))
  IN Join([i \in 1..Len(cs) |-> LowerOf[cs[i]]])

\* the SAFE list with the misspelling table forgotten
allSafePatternsNoMisspellings ==
  standardBracketed \o alphanumericCodes \o parts \o withRepeats
    \o timestamps \o sections

allSafePatterns ==
  standardBracketed \o alphanumericCodes \o parts \o withRepeats
    \o commonMisspellings \o timestamps \o sections

allSuspiciousPatterns == singleWordStructural \o allCapsShort \o directions

\* checkSafeHeader(line) returns a result rather than null
checkSafeHeader(line) ==
  LET trimmed == TrimChars(Chars(line))
  IN trimmed # <<>> /\ AnyMatch(allSafePatterns, trimmed)

isSuspiciousHeader(line) ==
  LET trimmed == TrimChars(Chars(line))
  IN trimmed # <<>> /\ AnyMatch(allSuspiciousPatterns, trimmed)

StructuralKeyword ==
  Alt(<<Lit("verse"), Lit("chorus"), Lit("bridge"), Lit("intro"), Lit("outro"),
        Lit("hook"), Lit("refrain"), Lit("interlude"), Lit("instrumental"),
        Lit("breakdown"), Lit("drop"), Lit("beat"), Lit("rap"), Lit("acapella"),
        Cat(<<Lit("pre"), SpOrDash, Lit("chorus")>>),
        Cat(<<Lit("post"), SpOrDash, Lit("chorus")>>)>>)

\* /!/.test(trimmed)
hasExclamation(line) == TestSearch(Lit("!"), FALSE, TrimChars(Chars(line)))

(***************************************************************************)
(* The lines the model classifies                                          *)
(***************************************************************************)
EmptyLine == "  "
SafeLine == "CHORUS"
LongLyric == "This instrumental melody is beautiful"
Adlib == "*Hey!*"
ShortLine == "Hold on"
KeywordAlone == "DROP"

\* one line of every kind the state machine tells apart: whitespace only,
\* SAFE (and SUSPICIOUS as well), five-word lyric holding a structural keyword,
\* suspicious exclamation, short plain line, lone structural keyword
InputLines == {EmptyLine, SafeLine, LongLyric, Adlib, ShortLine, KeywordAlone}

\* the end-to-end scenario of the test corpus
Scenario ==
  <<"CHORUS", "Walking down the street at night", "[Verse 1]",
    "This instrumental melody is beautiful", "">>

\* lyric lines of the test corpus that hold a structural keyword or look
\* like a producer tag
KeywordLyrics ==
  {"This instrumental melody is beautiful", "Drop the bass and let it flow",
   "The beat goes on and on", "Metro Boomin want some more"}

Texts == InputLines \cup {Scenario[k] : k \in DOMAIN Scenario} \cup KeywordLyrics

\* everything the classifier derives from the text of one line, computed
\* once per text
analyse(line) ==
  LET trimmed == TrimChars(Chars(line))
  IN [line |-> line,
      trimmed |-> Join(trimmed),
      safe |-> checkSafeHeader(line),
      isSuspicious |-> isSuspiciousHeader(line),
      wordCount |-> SplitCount(trimmed),
      charCount |-> Len(trimmed),
      hasAllCaps |-> /\ \A i \in 1..Len(trimmed) : trimmed[i] = UpperOf[trimmed[i]]
                     /\ \E i \in 1..Len(trimmed) : trimmed[i] \in Upper,
      containsStructuralKeyword |-> TestWord(StructuralKeyword, TRUE, trimmed),
      hasExclamation |-> hasExclamation(line),
      cacheKey |-> cacheKeyOf(normalizeForML(Join(trimmed)))]

\* The analyses of all texts.  The run keeps them in a variable that never
\* changes, so that each text is analysed once and not at every step.
VARIABLE analysisOf

AnalysisTable == [t \in Texts |-> analyse(t)]

Analysis(t) == analysisOf[t]

\* a neighbour of the context record: null or a line
NoLine == [present |-> FALSE, text |-> ""]
SomeLine(t) == [present |-> TRUE, text |-> t]

NoFeatures ==
  [present |-> FALSE, wordCount |-> 0, charCount |-> 0, hasAllCaps |-> FALSE,
   containsStructuralKeyword |-> FALSE, isSuspicious |-> FALSE,
   previousLineEmpty |-> FALSE, nextLineEmpty |-> FALSE]

\* extractFeatures(line, context); the features no decision reads
\* (hasBrackets, hasParentheses, startsWithNumber, endsWithColon,
\* positionInGroup) are left out
extractFeatures(line, context) ==
  LET a == Analysis(line)
  IN [present |-> TRUE,
      wordCount |-> a.wordCount,
      charCount |-> a.charCount,
      hasAllCaps |-> a.hasAllCaps,
      containsStructuralKeyword |-> a.containsStructuralKeyword,
      isSuspicious |-> a.isSuspicious,
      previousLineEmpty |->
        ~context.previous.present \/ Analysis(context.previous.text).trimmed = "",
      nextLineEmpty |->
        ~context.next.present \/ Analysis(context.next.text).trimmed = ""]

USE_HYBRID_APPROACH == TRUE

\* a classification result; features.present is FALSE where the source
\* result has no features field, bias is "" where it has no biasApplied
Result(type, confidence, method, features, headerSim, lyricSim, bias) ==
  [type |-> type, confidence |-> confidence, method |-> method,
   features |-> features, headerSim |-> headerSim, lyricSim |-> lyricSim,
   bias |-> bias]

Abs(n) == IF n < 0 THEN 0 - n ELSE n

\* classifyWithML with the boosts of one similarity added up, not compounded
classifyWithMLAdditive(h, l, features, context) ==
  LET lyricCtx == IF context.surroundingLyricCount >= 3 THEN 15 ELSE 0
      suspicious == IF features.isSuspicious THEN 25 ELSE 0
      shortCaps == IF features.wordCount <= 2 /\ features.hasAllCaps
                        /\ features.charCount <= 20 THEN 15 ELSE 0
      longKeyword == IF features.wordCount >= 4
                          /\ features.containsStructuralKeyword THEN 20 ELSE 0
      headerSim == h * (100 + suspicious + shortCaps) * 100
      lyricSim == l * (100 + lyricCtx + longKeyword) * 100
      margin == headerSim - lyricSim
  IN Result(IF margin > 0 THEN "header" ELSE "lyric", Abs(margin), "ml-context",
            features, headerSim, lyricSim, "")

\* classifyWithML boosting the header side after an empty line as well
classifyWithMLBlankBoost(h, l, features, context) ==
  LET lyricCtx == IF context.surroundingLyricCount >= 3 THEN 115 ELSE 100
      suspicious == IF features.isSuspicious \/ features.previousLineEmpty
                      THEN 125 ELSE 100
      shortCaps == IF features.wordCount <= 2 /\ features.hasAllCaps
                        /\ features.charCount <= 20 THEN 115 ELSE 100
      longKeyword == IF features.wordCount >= 4
                          /\ features.containsStructuralKeyword THEN 120 ELSE 100
      headerSim == h * suspicious * shortCaps
      lyricSim == l * lyricCtx * longKeyword
      margin == headerSim - lyricSim
  IN Result(IF margin > 0 THEN "header" ELSE "lyric", Abs(margin), "ml-context",
            features, headerSim, lyricSim, "")

\* classifyWithML with the lyric-context boost given to the header side
classifyWithMLContextToHeader(h, l, features, context) ==
  LET lyricCtx == IF context.surroundingLyricCount >= 3 THEN 115 ELSE 100
      suspicious == IF features.isSuspicious THEN 125 ELSE 100
      shortCaps == IF features.wordCount <= 2 /\ features.hasAllCaps
                        /\ features.charCount <= 20 THEN 115 ELSE 100
      longKeyword == IF features.wordCount >= 4
                          /\ features.containsStructuralKeyword THEN 120 ELSE 100
      headerSim == (h * suspicious * shortCaps * lyricCtx) \div 100
      lyricSim == l * longKeyword * 100
      margin == headerSim - lyricSim
  IN Result(IF margin > 0 THEN "header" ELSE "lyric", Abs(margin), "ml-context",
            features, headerSim, lyricSim, "")

\* classifyWithML with the lyric-context boost from two lyric neighbours on
classifyWithMLBoostFrom2(h, l, features, context) ==
  LET lyricCtx == IF context.surroundingLyricCount >= 2 THEN 115 ELSE 100
      suspicious == IF features.isSuspicious THEN 125 ELSE 100
      shortCaps == IF features.wordCount <= 2 /\ features.hasAllCaps
                        /\ features.charCount <= 20 THEN 115 ELSE 100
      longKeyword == IF features.wordCount >= 4
                          /\ features.containsStructuralKeyword THEN 120 ELSE 100
      headerSim == h * suspicious * shortCaps
      lyricSim == l * lyricCtx * longKeyword
      margin == headerSim - lyricSim
  IN Result(IF margin > 0 THEN "header" ELSE "lyric", Abs(margin), "ml-context",
            features, headerSim, lyricSim, "")

\* classifyWithML once the embedding is there: h and l are the cosine
\* similarities of the embedding to the header and the lyric centroid, in
\* hundredths; the scaled similarities are in millionths
classifyWithML(h, l, features, context) ==
  LET lyricCtx == IF context.surroundingLyricCount >= 3 THEN 115 ELSE 100
      suspicious == IF features.isSuspicious THEN 125 ELSE 100
      shortCaps == IF features.wordCount <= 2 /\ features.hasAllCaps
                        /\ features.charCount <= 20 THEN 115 ELSE 100
      longKeyword == IF features.wordCount >= 4
                          /\ features.containsStructuralKeyword THEN 120 ELSE 100
      headerSim == h * suspicious * shortCaps
      lyricSim == l * lyricCtx * longKeyword
      margin == headerSim - lyricSim
  IN Result(IF margin > 0 THEN "header" ELSE "lyric", Abs(margin), "ml-context",
            features, headerSim, lyricSim, "")

\* stageOf with the SAFE rules consulted only for lines that are not suspicious
stageOfSuspiciousFirst(line) ==
  LET a == Analysis(line)
  IN IF a.trimmed = "" THEN "empty"
     ELSE IF USE_HYBRID_APPROACH /\ a.safe /\ ~a.isSuspicious THEN "rule-safe"
     ELSE IF a.wordCount >= 5 /\ ~a.isSuspicious THEN "heuristic-length"
     ELSE IF a.wordCount <= 3 /\ a.hasExclamation /\ ~a.containsStructuralKeyword
       THEN "heuristic-exclamation"
     ELSE "ml-context"

\* stageOf with the length bypass starting at 6 words
stageOfLongFrom6(line) ==
  LET a == Analysis(line)
  IN IF a.trimmed = "" THEN "empty"
     ELSE IF USE_HYBRID_APPROACH /\ a.safe THEN "rule-safe"
     ELSE IF a.wordCount > 5 /\ ~a.isSuspicious THEN "heuristic-length"
     ELSE IF a.wordCount <= 3 /\ a.hasExclamation /\ ~a.containsStructuralKeyword
       THEN "heuristic-exclamation"
     ELSE "ml-context"

\* stageOf with the exclamation bypass for one or two words only
stageOfExclaimUpTo2(line) ==
  LET a == Analysis(line)
  IN IF a.trimmed = "" THEN "empty"
     ELSE IF USE_HYBRID_APPROACH /\ a.safe THEN "rule-safe"
     ELSE IF a.wordCount >= 5 /\ ~a.isSuspicious THEN "heuristic-length"
     ELSE IF a.wordCount <= 2 /\ a.hasExclamation /\ ~a.containsStructuralKeyword
       THEN "heuristic-exclamation"
     ELSE "ml-context"

\* the stage of classifyLine that decides the line
stageOf(line) ==
  LET a == Analysis(line)
  IN IF a.trimmed = "" THEN "empty"
     ELSE IF USE_HYBRID_APPROACH /\ a.safe THEN "rule-safe"
     ELSE IF a.wordCount >= 5 /\ ~a.isSuspicious THEN "heuristic-length"
     ELSE IF a.wordCount <= 3 /\ a.hasExclamation /\ ~a.containsStructuralKeyword
       THEN "heuristic-exclamation"
     ELSE "ml-context"

\* classifyByRule taking a suspicious short exclamation for a header at once
classifyByRuleSuspiciousHeader(line, context) ==
  LET stage == stageOf(line)
      features == extractFeatures(line, context)
  IN CASE stage = "empty" -> Result("empty", Unit, "rule", NoFeatures, 0, 0, "")
       [] stage = "rule-safe" ->
            Result("header", Unit, "rule-safe", NoFeatures, 0, 0, "")
       [] stage = "heuristic-length" ->
            Result("lyric", 950000, "heuristic-length", features, 0, 0, "")
       [] stage = "heuristic-exclamation" ->
            IF features.isSuspicious
              THEN Result("header", 850000, "heuristic-exclamation", features,
                          0, 0, "")
              ELSE Result("lyric", 850000, "heuristic-exclamation", features,
                          0, 0, "")

\* classifyLine for a line that is decided before step 4
classifyByRule(line, context) ==
  LET stage == stageOf(line)
      features == extractFeatures(line, context)
  IN CASE stage = "empty" -> Result("empty", Unit, "rule", NoFeatures, 0, 0, "")
       [] stage = "rule-safe" ->
            Result("header", Unit, "rule-safe", NoFeatures, 0, 0, "")
       [] stage = "heuristic-length" ->
            Result("lyric", 950000, "heuristic-length", features, 0, 0, "")
       [] stage = "heuristic-exclamation" ->
            Result("lyric", 850000, "heuristic-exclamation", features, 0, 0, "")

\* classifyByML without the bias towards Header for suspicious lines
classifyByMLNoBias(line, context, h, l) ==
  LET features == extractFeatures(line, context)
      mlResult == classifyWithML(h, l, features, context)
  IN IF mlResult.confidence < CONFIDENCE_THRESHOLD
       THEN [mlResult EXCEPT !.type = "uncertain"]
       ELSE mlResult

\* classifyByML biasing a suspicious line towards Header without recording it
classifyByMLBiasUntagged(line, context, h, l) ==
  LET features == extractFeatures(line, context)
      mlResult == classifyWithML(h, l, features, context)
  IN IF mlResult.confidence < CONFIDENCE_THRESHOLD
       THEN IF features.isSuspicious /\ mlResult.headerSim * 10 > mlResult.lyricSim * 9
              THEN [mlResult EXCEPT !.type = "header"]
              ELSE [mlResult EXCEPT !.type = "uncertain"]
       ELSE mlResult

\* classifyLine from step 4 on, given the similarities of the embedding
classifyByML(line, context, h, l) ==
  LET features == extractFeatures(line, context)
      mlResult == classifyWithML(h, l, features, context)
  IN IF mlResult.confidence < CONFIDENCE_THRESHOLD
       THEN IF features.isSuspicious /\ mlResult.headerSim * 10 > mlResult.lyricSim * 9
              THEN [mlResult EXCEPT !.type = "header", !.bias = "suspicious-pattern"]
              ELSE [mlResult EXCEPT !.type = "uncertain"]
       ELSE mlResult

\* countSurroundingLyrics counting every neighbour that is not a header
countSurroundingLyricsNotHeader(rs, index) ==
  LET start == IF index - WINDOW_SIZE < 1 THEN 1 ELSE index - WINDOW_SIZE
      end == IF index + WINDOW_SIZE > Len(rs) THEN Len(rs) ELSE index + WINDOW_SIZE
  IN Cardinality({k \in start..end : k # index /\ rs[k].type # "header"})

\* countSurroundingLyrics(results, index, windowSize = 2), indices from 1
countSurroundingLyrics(rs, index) ==
  LET start == IF index - WINDOW_SIZE < 1 THEN 1 ELSE index - WINDOW_SIZE
      end == IF index + WINDOW_SIZE > Len(rs) THEN Len(rs) ELSE index + WINDOW_SIZE
  IN Cardinality({k \in start..end : k # index /\ rs[k].type = "lyric"})

(***************************************************************************)
(* The embedding provider as the classifier sees it                        *)
(***************************************************************************)
\* the longest line sequence drawn as input
MaxLines == 4

\* the cosine similarities (header, lyric) an embedding can have, in hundredths
SimPairs == {<<80, 80>>, <<50, 80>>, <<60, 80>>, <<90, 80>>, <<90, 50>>}

\* what a call of the model can do on a cache miss: fail, or produce an
\* embedding with some pair of similarities to the two centroids
Failure == [ok |-> FALSE, sims |-> <<0, 0>>]
Success(sims) == [ok |-> TRUE, sims |-> sims]
Outcomes(up) == {Failure} \cup (IF up THEN {Success(p) : p \in SimPairs} ELSE {})

EmptyCache == [k \in {} |-> <<0, 0>>]

\* the outcomes to consider for a classifyLine call: those of the model where
\* the call runs it, and a single unused one where it does not
OutcomesFor(line, hc, lc, cache, up) ==
  IF stageOf(line) = "ml-context" /\ hc /\ lc
       /\ Analysis(line).cacheKey \notin DOMAIN cache
    THEN Outcomes(up)
    ELSE {Failure}

\* embedText(text): the cached vector on a hit, otherwise the outcome of the
\* model, cached when it is a vector
embedText(key, cache, outcome) ==
  IF key \in DOMAIN cache
    THEN [ok |-> TRUE, sims |-> cache[key], cache |-> cache, how |-> "hit"]
  ELSE IF outcome.ok
    THEN [ok |-> TRUE, sims |-> outcome.sims,
          cache |-> [k \in DOMAIN cache \cup {key} |->
                       IF k = key THEN outcome.sims ELSE cache[k]],
          how |-> "miss"]
  ELSE [ok |-> FALSE, sims |-> <<0, 0>>, cache |-> cache, how |-> "fail"]

NoResult == Result("none", 0, "none", NoFeatures, 0, 0, "")

Returned(result, cache, how) ==
  [threw |-> FALSE, error |-> "", result |-> result, cache |-> cache, embed |-> how]
Thrown(error, cache, how) ==
  [threw |-> TRUE, error |-> error, result |-> NoResult, cache |-> cache,
   embed |-> how]

\* classifyLine answering Uncertain when the embedding fails
classifyLineFallback(line, hc, lc, context, cache, outcome) ==
  IF stageOf(line) # "ml-context"
    THEN Returned(classifyByRule(line, context), cache, "none")
  ELSE IF ~hc \/ ~lc
    THEN Thrown("ML classification requires headerCentroid and lyricCentroid",
                cache, "none")
  ELSE LET e == embedText(Analysis(line).cacheKey, cache, outcome)
       IN IF e.ok
            THEN Returned(classifyByML(line, context, e.sims[1], e.sims[2]),
                          e.cache, e.how)
            ELSE Returned(Result("uncertain", 0, "ml-context",
                                 extractFeatures(line, context), 0, 0, ""),
                          e.cache, e.how)

\* classifyLine embedding every non-empty line before it looks at the rules
classifyLineEagerEmbed(line, hc, lc, context, cache, outcome) ==
  IF stageOf(line) = "empty"
    THEN Returned(classifyByRule(line, context), cache, "none")
  ELSE IF ~hc \/ ~lc
    THEN Thrown("ML classification requires headerCentroid and lyricCentroid",
                cache, "none")
  ELSE LET e == embedText(Analysis(line).cacheKey, cache, outcome)
       IN IF ~e.ok THEN Thrown("embedding failed", e.cache, e.how)
          ELSE IF stageOf(line) # "ml-context"
            THEN Returned(classifyByRule(line, context), e.cache, e.how)
          ELSE Returned(classifyByML(line, context, e.sims[1], e.sims[2]),
                        e.cache, e.how)

\* classifyLine asking for centroids only when both are missing
classifyLineOneCentroid(line, hc, lc, context, cache, outcome) ==
  IF stageOf(line) # "ml-context"
    THEN Returned(classifyByRule(line, context), cache, "none")
  ELSE IF ~hc /\ ~lc
    THEN Thrown("ML classification requires headerCentroid and lyricCentroid",
                cache, "none")
  ELSE LET e == embedText(Analysis(line).cacheKey, cache, outcome)
       IN IF e.ok
            THEN Returned(classifyByML(line, context, e.sims[1], e.sims[2]),
                          e.cache, e.how)
            ELSE Thrown("embedding failed", e.cache, e.how)

\* classifyLine(line, headerCentroid, lyricCentroid, context): what it returns
\* or throws, what it leaves in the embedding cache and whether it called
\* embedText; outcome is what the model does if it is run
classifyLine(line, hc, lc, context, cache, outcome) ==
  IF stageOf(line) # "ml-context"
    THEN Returned(classifyByRule(line, context), cache, "none")
  ELSE IF ~hc \/ ~lc
    THEN Thrown("ML classification requires headerCentroid and lyricCentroid",
                cache, "none")
  ELSE LET e == embedText(Analysis(line).cacheKey, cache, outcome)
       IN IF e.ok
            THEN Returned(classifyByML(line, context, e.sims[1], e.sims[2]),
                          e.cache, e.how)
            ELSE Thrown("embedding failed", e.cache, e.how)

(***************************************************************************)
(* classifyLines                                                           *)
(***************************************************************************)
VARIABLES
  lines,           \* the argument: the line sequence
  headerCentroid,  \* the argument is a centroid (TRUE) or null
  lyricCentroid,
  backendUp,       \* FALSE: every run of the embedding model fails
  embeddingCache,  \* embeddingCache of the model module: key -> similarities
  pc,              \* "pass1", "pass2", "returned", "thrown"
  i,               \* the loop index, from 1
  results,         \* the results array
  returned,        \* what the caller received
  error,           \* the error the caller received, "" if none
  pass1Results,    \* history: the results array as pass 1 left it
  calls            \* history: the classifyLine calls made so far

\* EMBEDDING_DIM = 384, the length of every vector embedText returns
EMBEDDING_DIM == 384

VARIABLES
  ort,             \* model.js: the runtime module, "null" until imported
  session,         \* model.js: the inference session, "null" until created
  isLoading,       \* model.js: a load is in flight
  loadError,       \* model.js: the error of the last failed load, "" if none
  embedCalls,      \* the embedText calls made on the module, by call number
  centroidLength,  \* the lengths of the header and the lyric centroid
  earlier          \* history: what earlier classifyLines calls returned

VARIABLES
  lyrics,          \* route: the lyrics field of the request body, as its lines
  groups,          \* route: the groups still to process, the current one first
  centroidsCache,  \* route modules: centroidsCache of each, "null" until set
  slidesContent,   \* route: the slides made so far, each a sequence of lines
  handled          \* history: what was done with each group processed

routeVars == <<lyrics, groups, centroidsCache, slidesContent, handled>>

moduleVars ==
  <<ort, session, isLoading, loadError, embedCalls, centroidLength, earlier,
    lyrics, groups, centroidsCache, slidesContent, handled>>

vars ==
  <<analysisOf, lines, headerCentroid, lyricCentroid, backendUp, embeddingCache,
    pc, i, results, returned, error, pass1Results, calls, ort, session,
    isLoading, loadError, embedCalls, centroidLength, earlier, lyrics, groups,
    centroidsCache, slidesContent, handled>>

\* the route modules as imported and no request received
RouteFresh ==
  /\ lyrics = <<>>
  /\ groups = <<>>
  /\ centroidsCache = [route \in {"generate-ppt", "classify-lyrics"} |-> "null"]
  /\ slidesContent = <<>>
  /\ handled = <<>>

\* the module as imported, nothing loaded and nothing called, and centroids
\* of the length of the embeddings
ModuleFresh ==
  /\ ort = "null"
  /\ session = "null"
  /\ isLoading = FALSE
  /\ loadError = ""
  /\ embedCalls = <<>>
  /\ centroidLength = <<EMBEDDING_DIM, EMBEDDING_DIM>>
  /\ earlier = <<>>
  /\ RouteFresh

RECURSIVE SeqsUpTo(_, _)
\* the sequences over S of length at most n
SeqsUpTo(S, n) ==
  IF n = 0 THEN {<<>>}
  ELSE LET shorter == SeqsUpTo(S, n - 1)
       IN shorter \cup {Append(q, e) : q \in shorter, e \in S}

Inputs == SeqsUpTo(InputLines, MaxLines) \cup {Scenario}

Init ==
  /\ analysisOf = AnalysisTable
  /\ lines \in Inputs
  /\ headerCentroid \in BOOLEAN
  /\ lyricCentroid \in BOOLEAN
  /\ backendUp \in BOOLEAN
  /\ embeddingCache = EmptyCache
  /\ pc = "pass1"
  /\ i = 1
  /\ results = <<>>
  /\ returned = <<>>
  /\ error = ""
  /\ pass1Results = <<>>
  /\ calls = <<>>
  /\ ModuleFresh

\* the context record of line k
contextOf(k, count) ==
  [previous |-> IF k > 1 THEN SomeLine(lines[k - 1]) ELSE NoLine,
   next |-> IF k < Len(lines) THEN SomeLine(lines[k + 1]) ELSE NoLine,
   surroundingLyricCount |-> count]

\* Entry keeping the trimmed text in place of the line
EntryTrimmed(text, result, reprocessed) ==
  [text |-> Analysis(text).trimmed, type |-> result.type,
   confidence |-> result.confidence, method |-> result.method,
   features |-> result.features, headerSim |-> result.headerSim,
   lyricSim |-> result.lyricSim, bias |-> result.bias,
   reprocessed |-> reprocessed]

\* { text: line, ...result } and, in pass 2, reprocessed: true
Entry(text, result, reprocessed) ==
  [text |-> text, type |-> result.type, confidence |-> result.confidence,
   method |-> result.method, features |-> result.features,
   headerSim |-> result.headerSim, lyricSim |-> result.lyricSim,
   bias |-> result.bias, reprocessed |-> reprocessed]

Call(pass, index, count, how) ==
  [pass |-> pass, index |-> index, surroundingLyricCount |-> count, embed |-> how]

\* an error leaves classifyLines: the caller gets the error and no array
Throw(error_) ==
  /\ pc' = "thrown"
  /\ error' = error_
  /\ UNCHANGED <<i, results, returned, pass1Results>>

\* Pass1Classify trimming the line in the caller's array
Pass1ClassifyInPlace ==
  /\ pc = "pass1"
  /\ i <= Len(lines)
  /\ \E outcome \in OutcomesFor(lines[i], headerCentroid, lyricCentroid,
                              embeddingCache, backendUp) :
       LET r == classifyLine(lines[i], headerCentroid, lyricCentroid,
                             contextOf(i, 0), embeddingCache, outcome)
       IN /\ embeddingCache' = r.cache
          /\ calls' = Append(calls, Call(1, i, 0, r.embed))
          /\ IF r.threw
               THEN Throw(r.error)
               ELSE /\ results' = Append(results, Entry(lines[i], r.result, FALSE))
                    /\ i' = i + 1
                    /\ UNCHANGED <<pc, returned, error, pass1Results>>
  /\ lines' = [lines EXCEPT ![i] = Analysis(lines[i]).trimmed]
  /\ UNCHANGED <<analysisOf, headerCentroid, lyricCentroid, backendUp>>
  /\ UNCHANGED moduleVars

\* first pass, one iteration: classify line i with the basic context
Pass1Classify ==
  /\ pc = "pass1"
  /\ i <= Len(lines)
  /\ \E outcome \in OutcomesFor(lines[i], headerCentroid, lyricCentroid,
                              embeddingCache, backendUp) :
       LET r == classifyLine(lines[i], headerCentroid, lyricCentroid,
                             contextOf(i, 0), embeddingCache, outcome)
       IN /\ embeddingCache' = r.cache
          /\ calls' = Append(calls, Call(1, i, 0, r.embed))
          /\ IF r.threw
               THEN Throw(r.error)
               ELSE /\ results' = Append(results, Entry(lines[i], r.result, FALSE))
                    /\ i' = i + 1
                    /\ UNCHANGED <<pc, returned, error, pass1Results>>
  /\ UNCHANGED <<analysisOf, lines, headerCentroid, lyricCentroid, backendUp>>
  /\ UNCHANGED moduleVars

\* Pass2Start with the first loop bounded by lines.length - 1
Pass2StartEarly ==
  /\ pc = "pass1"
  /\ i > Len(lines) - 1
  /\ pc' = "pass2"
  /\ i' = 1
  /\ pass1Results' = results
  /\ UNCHANGED <<analysisOf, lines, headerCentroid, lyricCentroid, backendUp,
                 embeddingCache, results, returned, error, calls>>
  /\ UNCHANGED moduleVars

\* the first loop ends, the second starts
Pass2Start ==
  /\ pc = "pass1"
  /\ i > Len(lines)
  /\ pc' = "pass2"
  /\ i' = 1
  /\ pass1Results' = results
  /\ UNCHANGED <<analysisOf, lines, headerCentroid, lyricCentroid, backendUp, embeddingCache,
                 results, returned, error, calls>>
  /\ UNCHANGED moduleVars

\* needsReview without the low-confidence header clause
needsReviewNoLowHeader(entry) ==
  \/ entry.type = "uncertain"
  \/ (entry.features.present /\ entry.features.isSuspicious)

\* the condition under which the second pass re-evaluates an entry
needsReview(entry) ==
  \/ entry.type = "uncertain"
  \/ (entry.features.present /\ entry.features.isSuspicious)
  \/ (entry.type = "header" /\ entry.confidence < LOW_HEADER_CONFIDENCE)

\* Pass2Reclassify staying on an entry for as long as its new verdict asks for
\* another look
Pass2ReclassifyUntilSure ==
  /\ pc = "pass2"
  /\ i <= Len(results)
  /\ needsReview(results[i])
  /\ \E outcome \in OutcomesFor(lines[i], headerCentroid, lyricCentroid,
                              embeddingCache, backendUp) :
       LET surroundingLyricCount == countSurroundingLyrics(results, i)
           r == classifyLine(lines[i], headerCentroid, lyricCentroid,
                             contextOf(i, surroundingLyricCount), embeddingCache,
                             outcome)
       IN /\ embeddingCache' = r.cache
          /\ calls' = Append(calls, Call(2, i, surroundingLyricCount, r.embed))
          /\ IF r.threw
               THEN Throw(r.error)
               ELSE /\ results' = [results EXCEPT ![i] = Entry(lines[i], r.result, TRUE)]
                    /\ i' = IF needsReview(Entry(lines[i], r.result, TRUE))
                              THEN i ELSE i + 1
                    /\ UNCHANGED <<pc, returned, error, pass1Results>>
  /\ UNCHANGED <<analysisOf, lines, headerCentroid, lyricCentroid, backendUp>>
  /\ UNCHANGED moduleVars

\* second pass, one iteration on an entry that is re-evaluated
Pass2Reclassify ==
  /\ pc = "pass2"
  /\ i <= Len(results)
  /\ needsReview(results[i])
  /\ \E outcome \in OutcomesFor(lines[i], headerCentroid, lyricCentroid,
                              embeddingCache, backendUp) :
       LET surroundingLyricCount == countSurroundingLyrics(results, i)
           r == classifyLine(lines[i], headerCentroid, lyricCentroid,
                             contextOf(i, surroundingLyricCount), embeddingCache,
                             outcome)
       IN /\ embeddingCache' = r.cache
          /\ calls' = Append(calls, Call(2, i, surroundingLyricCount, r.embed))
          /\ IF r.threw
               THEN Throw(r.error)
               ELSE /\ results' = [results EXCEPT ![i] = Entry(lines[i], r.result, TRUE)]
                    /\ i' = i + 1
                    /\ UNCHANGED <<pc, returned, error, pass1Results>>
  /\ UNCHANGED <<analysisOf, lines, headerCentroid, lyricCentroid, backendUp>>
  /\ UNCHANGED moduleVars

\* second pass, one iteration on an entry that is kept
Pass2Keep ==
  /\ pc = "pass2"
  /\ i <= Len(results)
  /\ ~needsReview(results[i])
  /\ i' = i + 1
  /\ UNCHANGED <<analysisOf, lines, headerCentroid, lyricCentroid, backendUp, embeddingCache,
                 pc, results, returned, error, pass1Results, calls>>
  /\ UNCHANGED moduleVars

\* return results
Return ==
  /\ pc = "pass2"
  /\ i > Len(results)
  /\ pc' = "returned"
  /\ returned' = results
  /\ UNCHANGED <<analysisOf, lines, headerCentroid, lyricCentroid, backendUp, embeddingCache,
                 i, results, error, pass1Results, calls>>
  /\ UNCHANGED moduleVars

Next == Pass1Classify \/ Pass2Start \/ Pass2Reclassify \/ Pass2Keep \/ Return

Spec == Init /\ [][Next]_vars

TypeOK ==
  /\ pc \in {"pass1", "pass2", "returned", "thrown"}
  /\ i \in 1..(Len(lines) + 1)

(***************************************************************************)
(* classifyLine called directly                                            *)
(***************************************************************************)
\* lines for the stages of classifyLine, one or more of each kind: short
\* exclamations (with and without a structural keyword, up to four words),
\* lines the model adjudicates (lone keywords in both cases, a short plain
\* line, a four-word line holding a keyword), all-caps tokens of 2, 3, 20 and
\* 21 letters, a table misspelling alone and with other words around it
LineTexts ==
  {"", "CHORUS", "*Hey!*", "Hey!", "Go go go!", "Go go go go!", "Drop it!",
   "DROP", "Drop", "PRE CHORUS", "Hold on", "Drop the beat now",
   "OH", "HEY", "ABCDEFGHIJKLMNOPQRST", "ABCDEFGHIJKLMNOPQRSTU",
   "Chrous", "Virse 2", "Chrous again", "my Briddge", "Inro song",
   "Virse 2 again", "sing CHORU5 loud", "oh Vers 3"}

LineTable == [t \in LineTexts |-> analyse(t)]

\* the most classifyLine calls made on the line
MaxCalls == 2

\* the largest surroundingLyricCount a window of WINDOW_SIZE on each side gives
MaxCount == 2 * WINDOW_SIZE

\* cosine similarities in hundredths, over the whole of [-1, 1]
LineSims == {-100, -50, 0, 10, 54, 75, 80, 90, 100}

LineOutcomesFor(line, hc, lc, cache, up) ==
  IF stageOf(line) = "ml-context" /\ hc /\ lc
       /\ Analysis(line).cacheKey \notin DOMAIN cache
    THEN {Failure}
           \cup (IF up THEN {Success(<<h, l>>) : h \in LineSims, l \in LineSims}
                       ELSE {})
    ELSE {Failure}

LineInit ==
  /\ analysisOf = LineTable
  /\ lines \in {<<t>> : t \in LineTexts}
  /\ headerCentroid \in BOOLEAN
  /\ lyricCentroid \in BOOLEAN
  /\ backendUp \in BOOLEAN
  /\ embeddingCache = EmptyCache
  /\ pc = "call"
  /\ i = 1
  /\ results = <<>>
  /\ returned = <<>>
  /\ error = ""
  /\ pass1Results = <<>>
  /\ calls = <<>>
  /\ ModuleFresh

\* a caller awaits classifyLine(line, headerCentroid, lyricCentroid, context)
\* with a context of its choice; results collects what the calls returned
CallClassifyLine ==
  /\ pc = "call"
  /\ Len(calls) < MaxCalls
  /\ \E count \in 0..MaxCount :
       \E outcome \in LineOutcomesFor(lines[1], headerCentroid, lyricCentroid,
                                      embeddingCache, backendUp) :
         LET context == [previous |-> NoLine, next |-> NoLine,
                         surroundingLyricCount |-> count]
             r == classifyLine(lines[1], headerCentroid, lyricCentroid, context,
                               embeddingCache, outcome)
         IN /\ embeddingCache' = r.cache
            /\ calls' = Append(calls, Call(Len(calls) + 1, 1, count, r.embed))
            /\ IF r.threw
                 THEN /\ pc' = "thrown"
                      /\ error' = r.error
                      /\ UNCHANGED results
                 ELSE /\ results' = Append(results, Entry(lines[1], r.result, FALSE))
                      /\ UNCHANGED <<pc, error>>
  /\ UNCHANGED <<analysisOf, lines, headerCentroid, lyricCentroid, backendUp,
                 i, returned, pass1Results>>
  /\ UNCHANGED moduleVars

LineNext == CallClassifyLine

LineSpec == LineInit /\ [][LineNext]_vars

(***************************************************************************)
(* classifyLine called with a line only                                    *)
(***************************************************************************)
\* classifyLine(line, headerCentroid, lyricCentroid) with context left to its
\* default {}: the empty line and the SAFE headers return before the context
\* is read; for every other line extractFeatures evaluates
\* context.previous === null || context.previous.trim() === '' with
\* context.previous undefined, which is not null, and .trim() of undefined
\* throws before any stage after step 1 is reached
classifyLineNoContext(line, hc, lc, cache, outcome) ==
  IF stageOf(line) \in {"empty", "rule-safe"}
    THEN Returned(classifyByRule(line, [previous |-> NoLine, next |-> NoLine,
                                        surroundingLyricCount |-> 0]),
                  cache, "none")
    ELSE Thrown("TypeError: Cannot read properties of undefined (reading 'trim')",
                cache, "none")

BareInit ==
  /\ analysisOf = AnalysisTable
  /\ lines \in {<<t>> : t \in Texts}
  /\ headerCentroid \in BOOLEAN
  /\ lyricCentroid \in BOOLEAN
  /\ backendUp \in BOOLEAN
  /\ embeddingCache = EmptyCache
  /\ pc = "call"
  /\ i = 1
  /\ results = <<>>
  /\ returned = <<>>
  /\ error = ""
  /\ pass1Results = <<>>
  /\ calls = <<>>
  /\ ModuleFresh

\* a caller awaits classifyLine(line, headerCentroid, lyricCentroid)
CallClassifyLineBare ==
  /\ pc = "call"
  /\ Len(calls) < MaxCalls
  /\ \E outcome \in OutcomesFor(lines[1], headerCentroid, lyricCentroid,
                              embeddingCache, backendUp) :
       LET r == classifyLineNoContext(lines[1], headerCentroid, lyricCentroid,
                                      embeddingCache, outcome)
       IN /\ embeddingCache' = r.cache
          /\ calls' = Append(calls, Call(Len(calls) + 1, 1, 0, r.embed))
          /\ IF r.threw
               THEN /\ pc' = "thrown"
                    /\ error' = r.error
                    /\ UNCHANGED results
               ELSE /\ results' = Append(results, Entry(lines[1], r.result, FALSE))
                    /\ UNCHANGED <<pc, error>>
  /\ UNCHANGED <<analysisOf, lines, headerCentroid, lyricCentroid, backendUp,
                 i, returned, pass1Results>>
  /\ UNCHANGED moduleVars

BareNext == CallClassifyLineBare

BareSpec == BareInit /\ [][BareNext]_vars

(***************************************************************************)
(* classifyLine with centroids of any length                               *)
(***************************************************************************)
\* cosineSimilarity(a, b) as far as the lengths decide it: it throws when
\* they differ and otherwise returns the similarity of the two vectors
cosineSimilarity(lengthA, lengthB, similarity) ==
  IF lengthA # lengthB
    THEN [threw |-> TRUE, error |-> "Vectors must have the same length", value |-> 0]
    ELSE [threw |-> FALSE, error |-> "", value |-> similarity]

\* classifyLineDims taking the similarities whatever the lengths are
classifyLineDimsCoerce(line, hc, lc, context, cache, outcome, lengths) ==
  classifyLine(line, hc, lc, context, cache, outcome)

\* classifyLine with the two calls of cosineSimilarity in classifyWithML
\* spelled out: the embedding has EMBEDDING_DIM components, the centroids
\* have the lengths given, and what cosineSimilarity throws passes through
\* classifyWithML and classifyLine to the caller, the embedding staying cached
classifyLineDims(line, hc, lc, context, cache, outcome, lengths) ==
  IF stageOf(line) # "ml-context" \/ ~hc \/ ~lc
    THEN classifyLine(line, hc, lc, context, cache, outcome)
  ELSE LET e == embedText(Analysis(line).cacheKey, cache, outcome)
           headerSim == cosineSimilarity(EMBEDDING_DIM, lengths[1], e.sims[1])
           lyricSim == cosineSimilarity(EMBEDDING_DIM, lengths[2], e.sims[2])
       IN IF ~e.ok THEN Thrown("embedding failed", e.cache, e.how)
          ELSE IF headerSim.threw THEN Thrown(headerSim.error, e.cache, e.how)
          ELSE IF lyricSim.threw THEN Thrown(lyricSim.error, e.cache, e.how)
          ELSE Returned(classifyByML(line, context, headerSim.value, lyricSim.value),
                        e.cache, e.how)

\* the lines classified: two the model adjudicates, a suspicious
\* exclamation, a SAFE header, an empty line and a line the count rule decides
DimTexts == {"Hold on", "Drop", "*Hey!*", "CHORUS", "", "Drop the beat now"}

\* the lengths a centroid handed to classifyLine may have
DimLengths == {EMBEDDING_DIM - 1, EMBEDDING_DIM, EMBEDDING_DIM + 1}

DimInit ==
  /\ analysisOf = LineTable
  /\ lines \in {<<t>> : t \in DimTexts}
  /\ headerCentroid \in BOOLEAN
  /\ lyricCentroid \in BOOLEAN
  /\ backendUp \in BOOLEAN
  /\ embeddingCache = EmptyCache
  /\ pc = "call"
  /\ i = 1
  /\ results = <<>>
  /\ returned = <<>>
  /\ error = ""
  /\ pass1Results = <<>>
  /\ calls = <<>>
  /\ ort = "null" /\ session = "null" /\ isLoading = FALSE /\ loadError = ""
  /\ embedCalls = <<>> /\ earlier = <<>>
  /\ centroidLength \in DimLengths \X DimLengths
  /\ RouteFresh

\* a caller awaits classifyLine(line, headerCentroid, lyricCentroid, context)
\* with the centroids it has
CallClassifyLineDims ==
  /\ pc = "call"
  /\ Len(calls) < MaxCalls
  /\ \E count \in 0..MaxCount :
       \E outcome \in OutcomesFor(lines[1], headerCentroid, lyricCentroid,
                                  embeddingCache, backendUp) :
         LET context == [previous |-> NoLine, next |-> NoLine,
                         surroundingLyricCount |-> count]
             r == classifyLineDims(lines[1], headerCentroid, lyricCentroid, context,
                                   embeddingCache, outcome, centroidLength)
         IN /\ embeddingCache' = r.cache
            /\ calls' = Append(calls, Call(Len(calls) + 1, 1, count, r.embed))
            /\ IF r.threw
                 THEN /\ pc' = "thrown"
                      /\ error' = r.error
                      /\ UNCHANGED results
                 ELSE /\ results' = Append(results, Entry(lines[1], r.result, FALSE))
                      /\ UNCHANGED <<pc, error>>
  /\ UNCHANGED <<analysisOf, lines, headerCentroid, lyricCentroid, backendUp,
                 i, returned, pass1Results>>
  /\ UNCHANGED moduleVars

DimNext == CallClassifyLineDims

DimSpec == DimInit /\ [][DimNext]_vars

(***************************************************************************)
(* classifyLines on one line in every surrounding                          *)
(***************************************************************************)
\* the neighbours: a lyric the length rule decides and a lone keyword the
\* model adjudicates and the second pass re-evaluates
AroundLines == {LongLyric, KeywordAlone}

\* the lines put in the middle: empty and whitespace-only lines, the
\* misspellings of the table, a suspicious exclamation, a lone keyword
MiddleLines ==
  {"", "  ", " \t", "Chrous", "Briddge", "Inro", "Virse 2", "Chrus", "BRIGE",
   "Vers 3", "Vrs 1", "CHORU5", "*Hey!*", "Drop"}

\* the most lines on each side of the middle line
MaxAround == 2

AroundTable == [t \in AroundLines \cup MiddleLines |-> analyse(t)]

AroundInputs ==
  {before \o <<t>> \o after :
     before \in SeqsUpTo(AroundLines, MaxAround),
     t \in MiddleLines,
     after \in SeqsUpTo(AroundLines, MaxAround)}

AroundInit ==
  /\ analysisOf = AroundTable
  /\ lines \in AroundInputs
  /\ headerCentroid \in BOOLEAN
  /\ lyricCentroid \in BOOLEAN
  /\ backendUp \in BOOLEAN
  /\ embeddingCache = EmptyCache
  /\ pc = "pass1"
  /\ i = 1
  /\ results = <<>>
  /\ returned = <<>>
  /\ error = ""
  /\ pass1Results = <<>>
  /\ calls = <<>>
  /\ ModuleFresh

AroundSpec == AroundInit /\ [][Next]_vars

(***************************************************************************)
(* classifyLines on a line among lyrics, its embedding anywhere            *)
(***************************************************************************)
\* the lines put in the middle: the lines pass 2 looks at again (lone
\* keywords, short all-caps tokens, an all-caps phrase of four words holding
\* a keyword, a suspicious exclamation) and a short plain line
WideMiddle ==
  {"DROP", "Drop", "HEY", "PRE CHORUS", "GO TO THE DROP", "*Hey!*", "Hold on"}

WideTable == [t \in WideMiddle \cup {LongLyric} |-> analyse(t)]

\* the middle line has up to MaxAround lyrics on each side; an earlier call
\* left its embedding in the cache of the model module, with any pair of
\* cosine similarities to the two centroids
WideInit ==
  /\ analysisOf = WideTable
  /\ \E before \in SeqsUpTo({LongLyric}, MaxAround) :
       \E t \in WideMiddle :
         \E after \in SeqsUpTo({LongLyric}, MaxAround) :
           \E h \in LineSims :
             \E l \in LineSims :
               /\ lines = before \o <<t>> \o after
               /\ embeddingCache =
                    [key \in {Analysis(t).cacheKey} |-> <<h, l>>]
  /\ headerCentroid = TRUE
  /\ lyricCentroid = TRUE
  /\ backendUp \in BOOLEAN
  /\ pc = "pass1"
  /\ i = 1
  /\ results = <<>>
  /\ returned = <<>>
  /\ error = ""
  /\ pass1Results = <<>>
  /\ calls = <<>>
  /\ ModuleFresh

WideSpec == WideInit /\ [][Next]_vars

(***************************************************************************)
(* classifyLines called again on the same lines                            *)
(***************************************************************************)
\* a lyric the length rule decides, a short line the model decides and the
\* second pass keeps or re-evaluates, a lone keyword it always re-evaluates
TwiceLines == {LongLyric, ShortLine, KeywordAlone}

\* the longest line sequence classified more than once
MaxTwice == 3

\* the most classifyLines calls on the same sequence
MaxRuns == 2

TwiceInit ==
  /\ analysisOf = AnalysisTable
  /\ lines \in SeqsUpTo(TwiceLines, MaxTwice)
  /\ headerCentroid = TRUE
  /\ lyricCentroid = TRUE
  /\ backendUp \in BOOLEAN
  /\ embeddingCache = EmptyCache
  /\ pc = "pass1"
  /\ i = 1
  /\ results = <<>>
  /\ returned = <<>>
  /\ error = ""
  /\ pass1Results = <<>>
  /\ calls = <<>>
  /\ ModuleFresh

\* CallAgain with the embedding cache emptied between the calls
CallAgainFreshCache ==
  /\ pc \in {"returned", "thrown"}
  /\ Len(earlier) + 1 < MaxRuns
  /\ earlier' = Append(earlier, [threw |-> pc = "thrown", returned |-> returned])
  /\ pc' = "pass1"
  /\ i' = 1
  /\ results' = <<>>
  /\ returned' = <<>>
  /\ error' = ""
  /\ pass1Results' = <<>>
  /\ calls' = <<>>
  /\ embeddingCache' = EmptyCache
  /\ UNCHANGED <<analysisOf, lines, headerCentroid, lyricCentroid, backendUp,
                 ort, session, isLoading, loadError, embedCalls, centroidLength>>
  /\ UNCHANGED routeVars

\* the caller, having got an array or an error, calls classifyLines again
\* with the same arguments; the embedding cache is the module's and stays
CallAgain ==
  /\ pc \in {"returned", "thrown"}
  /\ Len(earlier) + 1 < MaxRuns
  /\ earlier' = Append(earlier, [threw |-> pc = "thrown", returned |-> returned])
  /\ pc' = "pass1"
  /\ i' = 1
  /\ results' = <<>>
  /\ returned' = <<>>
  /\ error' = ""
  /\ pass1Results' = <<>>
  /\ calls' = <<>>
  /\ UNCHANGED <<analysisOf, lines, headerCentroid, lyricCentroid, backendUp,
                 embeddingCache, ort, session, isLoading, loadError, embedCalls,
                 centroidLength>>
  /\ UNCHANGED routeVars

TwiceNext ==
  Pass1Classify \/ Pass2Start \/ Pass2Reclassify \/ Pass2Keep \/ Return
    \/ CallAgain

TwiceSpec == TwiceInit /\ [][TwiceNext]_vars

(***************************************************************************)
(* The embedding module: embedText, loadModel, clearCache, getCacheStats   *)
(***************************************************************************)
\* texts to embed: two that are equal after trimming and lower-casing, and
\* another one
ModelTexts == {"Hold on", " hold ON", "Drop"}

\* the most embedText calls made, overlapping or one after the other
MaxEmbedCalls == 3

\* tokenize(text) as far as the text decides it: text.toLowerCase().trim(),
\* which the token ids, the model's output and so the embedding are
\* functions of
tokenize(text) ==
  LET cs == Chars(text)
  IN Join(TrimChars([k \in 1..Len(cs) |-> LowerOf[cs[k]]]))

\* cacheKey and tokens of the texts and of the cache keys, computed once
ModelTable ==
  [t \in ModelTexts \cup {cacheKeyOf(t) : t \in ModelTexts} |->
     [cacheKey |-> cacheKeyOf(t), tokens |-> tokenize(t)]]

\* the Float32Array a call computes: its components are those of the
\* embedding of the tokens, and it is the object made by that call
Vector(text, call) == [value |-> analysisOf[text].tokens, ref |-> call]

NoVector == [value |-> "", ref |-> 0]

\* the InferenceSession object created for the load that call started
SessionOf(call) == ToString(call)

\* the calls that have not settled, and those that returned a vector with no
\* clearCache since
InFlight == {c \in DOMAIN embedCalls : embedCalls[c].pc \notin {"returned", "failed"}}

ReturnedKept ==
  {c \in DOMAIN embedCalls : embedCalls[c].pc = "returned" /\ embedCalls[c].kept}

\* an embedText call: where it stands, what it holds, and as history the
\* calls in flight when it started (during) and the calls that had returned
\* by then with no clearCache since (after)
EmbedCall(text, at, modelSession, result) ==
  [text |-> text, key |-> analysisOf[text].cacheKey, pc |-> at,
   modelSession |-> modelSession, hit |-> at = "returned", result |-> result,
   error |-> "", kept |-> TRUE, during |-> InFlight,
   after |-> ReturnedKept]

ModelInit ==
  /\ analysisOf = ModelTable
  /\ lines = <<>>
  /\ headerCentroid = FALSE
  /\ lyricCentroid = FALSE
  /\ backendUp \in BOOLEAN
  /\ embeddingCache = EmptyCache
  /\ pc = "module"
  /\ i = 1
  /\ results = <<>>
  /\ returned = <<>>
  /\ error = ""
  /\ pass1Results = <<>>
  /\ calls = <<>>
  /\ ModuleFresh

classifierVars ==
  <<analysisOf, lines, headerCentroid, lyricCentroid, backendUp, i, results,
    returned, error, pass1Results, calls, centroidLength, earlier, lyrics, groups,
    centroidsCache, slidesContent, handled>>

\* EmbedStart entering loadModel without looking at isLoading
EmbedStartNoGuard ==
  /\ Len(embedCalls) < MaxEmbedCalls
  /\ pc' = "embedText"
  /\ \E text \in ModelTexts :
       LET key == analysisOf[text].cacheKey
       IN IF key \in DOMAIN embeddingCache
            THEN /\ embedCalls' =
                      Append(embedCalls,
                             EmbedCall(text, "returned", "null", embeddingCache[key]))
                 /\ UNCHANGED isLoading
          ELSE IF session # "null"
            THEN /\ embedCalls' =
                      Append(embedCalls, EmbedCall(text, "loaded", session, NoVector))
                 /\ UNCHANGED isLoading
          ELSE /\ isLoading' = TRUE
               /\ embedCalls' =
                    Append(embedCalls,
                           EmbedCall(text,
                                     IF ort = "null" THEN "importing" ELSE "creating",
                                     "null", NoVector))
  /\ UNCHANGED <<embeddingCache, ort, session, loadError>>
  /\ UNCHANGED classifierVars

\* embedText(text) up to its first await: the cached vector on a hit;
\* otherwise loadModel(), which returns the session there is, or waits for
\* the load in flight, or starts one
EmbedStart ==
  /\ Len(embedCalls) < MaxEmbedCalls
  /\ pc' = "embedText"
  /\ \E text \in ModelTexts :
       LET key == analysisOf[text].cacheKey
       IN IF key \in DOMAIN embeddingCache
            THEN /\ embedCalls' =
                      Append(embedCalls,
                             EmbedCall(text, "returned", "null", embeddingCache[key]))
                 /\ UNCHANGED isLoading
          ELSE IF session # "null"
            THEN /\ embedCalls' =
                      Append(embedCalls, EmbedCall(text, "loaded", session, NoVector))
                 /\ UNCHANGED isLoading
          ELSE IF isLoading
            THEN /\ embedCalls' =
                      Append(embedCalls, EmbedCall(text, "waiting", "null", NoVector))
                 /\ UNCHANGED isLoading
          ELSE /\ isLoading' = TRUE
               /\ embedCalls' =
                    Append(embedCalls,
                           EmbedCall(text,
                                     IF ort = "null" THEN "importing" ELSE "creating",
                                     "null", NoVector))
  /\ UNCHANGED <<embeddingCache, ort, session, loadError>>
  /\ UNCHANGED classifierVars

\* the catch block of loadModel, and embedText rejecting with its error
LoadFailed(c, why) ==
  /\ isLoading' = FALSE
  /\ loadError' = why
  /\ embedCalls' = [embedCalls EXCEPT ![c].pc = "failed",
                                      ![c].error = "Model loading failed"]

\* await import('onnxruntime-...') settles; the runtime may be missing only
\* where the model cannot be loaded
ImportDone(c) ==
  /\ embedCalls[c].pc = "importing"
  /\ pc' = "embedText"
  /\ \/ /\ ort' = "ort"
        /\ embedCalls' = [embedCalls EXCEPT ![c].pc = "creating"]
        /\ UNCHANGED <<isLoading, loadError>>
     \/ /\ ~backendUp
        /\ LoadFailed(c, "import failed")
        /\ UNCHANGED ort
  /\ UNCHANGED <<embeddingCache, session>>
  /\ UNCHANGED classifierVars

\* await ort.InferenceSession.create(MODEL_PATH, ...) settles
CreateDone(c) ==
  /\ embedCalls[c].pc = "creating"
  /\ pc' = "embedText"
  /\ IF backendUp
       THEN /\ session' = SessionOf(c)
            /\ isLoading' = FALSE
            /\ embedCalls' = [embedCalls EXCEPT ![c].pc = "loaded",
                                                ![c].modelSession = SessionOf(c)]
            /\ UNCHANGED loadError
       ELSE /\ LoadFailed(c, "create failed")
            /\ UNCHANGED session
  /\ UNCHANGED <<embeddingCache, ort>>
  /\ UNCHANGED classifierVars

\* the loop of loadModel that waits for the load in flight sees isLoading
\* false and returns session, whatever it is
WaitDone(c) ==
  /\ embedCalls[c].pc = "waiting"
  /\ ~isLoading
  /\ pc' = "embedText"
  /\ embedCalls' = [embedCalls EXCEPT ![c].pc = "loaded",
                                      ![c].modelSession = session]
  /\ UNCHANGED <<embeddingCache, ort, session, isLoading, loadError>>
  /\ UNCHANGED classifierVars

\* embedText from the return of loadModel to await modelSession.run(feeds):
\* new ort.Tensor(...) and modelSession.run throw a TypeError on null
RunInference(c) ==
  /\ embedCalls[c].pc = "loaded"
  /\ pc' = "embedText"
  /\ IF ort = "null" \/ embedCalls[c].modelSession = "null"
       THEN embedCalls' = [embedCalls EXCEPT ![c].pc = "failed",
                                             ![c].error = "TypeError"]
       ELSE embedCalls' = [embedCalls EXCEPT ![c].pc = "inferring"]
  /\ UNCHANGED <<embeddingCache, ort, session, isLoading, loadError>>
  /\ UNCHANGED classifierVars

\* InferenceDone with a cache that keeps the latest embedding only
InferenceDoneLatestOnly(c) ==
  /\ embedCalls[c].pc = "inferring"
  /\ pc' = "embedText"
  /\ \/ LET v == Vector(embedCalls[c].text, c)
        IN /\ embeddingCache' = [k \in {embedCalls[c].key} |-> v]
           /\ embedCalls' = [embedCalls EXCEPT ![c].pc = "returned",
                                               ![c].result = v]
     \/ /\ embedCalls' = [embedCalls EXCEPT ![c].pc = "failed",
                                            ![c].error = "inference failed"]
        /\ UNCHANGED embeddingCache
  /\ UNCHANGED <<ort, session, isLoading, loadError>>
  /\ UNCHANGED classifierVars

\* InferenceDone returning the embedding without caching it
InferenceDoneNoWrite(c) ==
  /\ embedCalls[c].pc = "inferring"
  /\ pc' = "embedText"
  /\ \/ embedCalls' = [embedCalls EXCEPT ![c].pc = "returned",
                                         ![c].result = Vector(embedCalls[c].text, c)]
     \/ embedCalls' = [embedCalls EXCEPT ![c].pc = "failed",
                                         ![c].error = "inference failed"]
  /\ UNCHANGED <<embeddingCache, ort, session, isLoading, loadError>>
  /\ UNCHANGED classifierVars

\* await modelSession.run(feeds) settles: mean pooling, normalisation,
\* embeddingCache.set(cacheKey, normalizedEmbedding) and return, or the error
\* of the run
InferenceDone(c) ==
  /\ embedCalls[c].pc = "inferring"
  /\ pc' = "embedText"
  /\ \/ LET v == Vector(embedCalls[c].text, c)
        IN /\ embeddingCache' =
                [k \in DOMAIN embeddingCache \cup {embedCalls[c].key} |->
                   IF k = embedCalls[c].key THEN v ELSE embeddingCache[k]]
           /\ embedCalls' = [embedCalls EXCEPT ![c].pc = "returned",
                                               ![c].result = v]
     \/ /\ embedCalls' = [embedCalls EXCEPT ![c].pc = "failed",
                                            ![c].error = "inference failed"]
        /\ UNCHANGED embeddingCache
  /\ UNCHANGED <<ort, session, isLoading, loadError>>
  /\ UNCHANGED classifierVars

\* clearCache(); the calls that returned are from now on calls from before a
\* clearCache
ClearCache ==
  /\ pc' = "clearCache"
  /\ embeddingCache' = EmptyCache
  /\ embedCalls' =
       [c \in DOMAIN embedCalls |->
          IF embedCalls[c].pc = "returned"
            THEN [embedCalls[c] EXCEPT !.kept = FALSE]
            ELSE embedCalls[c]]
  /\ UNCHANGED <<ort, session, isLoading, loadError>>
  /\ UNCHANGED classifierVars

\* getCacheStats(): the size and the keys of the cache
getCacheStats ==
  [size |-> Cardinality(DOMAIN embeddingCache), keys |-> DOMAIN embeddingCache]

ModelNext ==
  \/ EmbedStart
  \/ \E c \in DOMAIN embedCalls :
       \/ ImportDone(c)
       \/ CreateDone(c)
       \/ WaitDone(c)
       \/ RunInference(c)
       \/ InferenceDone(c)
  \/ ClearCache

ModelSpec == ModelInit /\ [][ModelNext]_vars

(***************************************************************************)
(* The routes /api/generate-ppt and /api/classify-lyrics                   *)
(***************************************************************************)
\* the lines a request body is made of (lyrics is these joined by '\n'):
\* an empty and a blank line, a bracketed header, a header without brackets,
\* and two lines the model adjudicates, one of them with a parenthesis at its
\* end
RouteRawLines ==
  {"", " ", "[Chorus]", "CHORUS", " Drop", "Hold on (yeah)"}

\* the longest lyrics drawn, in lines
MaxRawLines == 3

\* String.prototype.trim on a line
trim(line) == Join(TrimChars(Chars(line)))

RouteTable == [t \in RouteRawLines \cup {trim(r) : r \in RouteRawLines} |-> analyse(t)]

isBlank(line) == Analysis(line).trimmed = ""

\* the test with the trim forgotten
lyricsMissingUntrimmed(body) == body = <<>> \/ body = <<"">>

\* !lyrics || !lyrics.trim(): the field is missing or empty, or holds
\* nothing but whitespace
lyricsMissing(body) == body = <<>> \/ \A k \in DOMAIN body : isBlank(body[k])

\* lyrics.split(/\n\s*\n/), and for each group
\* group.split('\n').map(trim).filter(nonempty): a run of blank lines between
\* two lines separates two groups; at the start or the end of the lyrics a
\* run of two blank lines or more leaves a group with no line in it
splitGroups(body) ==
  LET n == Len(body)
      starts == {s \in 1..n : ~isBlank(body[s]) /\ (s = 1 \/ isBlank(body[s - 1]))}
      endOf(s) == CHOOSE e \in s..n :
                    /\ \A k \in s..e : ~isBlank(body[k])
                    /\ e = n \/ isBlank(body[e + 1])
      nth(r) == CHOOSE s \in starts : Cardinality({t \in starts : t <= s}) = r
      runs == [r \in 1..Cardinality(starts) |->
                 [k \in 1..(endOf(nth(r)) - nth(r) + 1) |->
                    Analysis(body[nth(r) + k - 1]).trimmed]]
      lead == IF n >= 2 /\ isBlank(body[1]) /\ isBlank(body[2])
                THEN << <<>> >> ELSE <<>>
      trail == IF n >= 2 /\ isBlank(body[n]) /\ isBlank(body[n - 1])
                 THEN << <<>> >> ELSE <<>>
  IN lead \o runs \o trail

\* what classifyLines can return for the lines of a group: for each line its
\* text and a type, the one of its rule where a rule decides, any of the three
\* of the ML stage otherwise
TypesOf(line) ==
  IF stageOf(line) = "ml-context"
    THEN {"header", "lyric", "uncertain"}
    ELSE {classifyByRule(line, [previous |-> NoLine, next |-> NoLine,
                                surroundingLyricCount |-> 0]).type}

ResultsOf(group) ==
  {[k \in 1..Len(group) |-> [text |-> group[k], type |-> ts[k]]] :
     ts \in {f \in [1..Len(group) -> {"header", "lyric", "uncertain", "empty"}] :
               \A k \in 1..Len(group) : f[k] \in TypesOf(group[k])}}

\* the filter that keeps lyrics only
keepLinesLyricOnly(rs) ==
  LET kept(r) == r.type = "lyric"
      f == SelectSeq(rs, kept)
  IN [k \in 1..Len(f) |-> f[k].text]

\* results.filter(r => r.type === 'lyric' || r.type === 'uncertain').map(r => r.text)
keepLines(rs) ==
  LET kept(r) == r.type = "lyric" \/ r.type = "uncertain"
      f == SelectSeq(rs, kept)
  IN [k \in 1..Len(f) |-> f[k].text]

\* line.startsWith('[') && line.endsWith(']')
isBracketed(line) ==
  Len(line) >= 1 /\ SubSeq(line, 1, 1) = "[" /\ SubSeq(line, Len(line), Len(line)) = "]"

\* the fallback that drops what the rules call a header
fallbackLinesNoHeaders(group) ==
  LET kept(line) == stageOf(line) # "rule-safe"
  IN SelectSeq(group, kept)

\* the fallback of the catch block: every line but the bracketed ones
fallbackLines(group) ==
  LET kept(line) == ~isBracketed(line)
  IN SelectSeq(group, kept)

\* line.match(/^(.+?)\s*(\(.+?\))$/): the text before the first '(' that is
\* not the first character, and the rest, when the line ends with ')' and
\* holds a character between the two; the line itself otherwise
splitParentheses(line) ==
  LET n == Len(line)
      opens == {p \in 2..(n - 2) : SubSeq(line, p, p) = "("}
  IN IF n >= 4 /\ SubSeq(line, n, n) = ")" /\ opens # {}
       THEN LET p == CHOOSE q \in opens : \A r \in opens : q <= r
            IN <<trim(SubSeq(line, 1, p - 1)), trim(SubSeq(line, p, n))>>
       ELSE <<line>>

RECURSIVE processLines(_)
processLines(ls) ==
  IF ls = <<>> THEN <<>> ELSE splitParentheses(Head(ls)) \o processLines(Tail(ls))

\* the body of the grouping loop taking up to three lines on a slide
slidesAtGreedy(ls, k) ==
  LET remaining == Len(ls) - k + 1
  IN IF remaining <= 3
       THEN [slides |-> <<SubSeq(ls, k, Len(ls))>>, next |-> Len(ls) + 1]
       ELSE [slides |-> <<SubSeq(ls, k, k + 1)>>, next |-> k + 2]

\* the body of the grouping loop at index k (from 1): the slides it pushes
\* and the index it leaves
slidesAt(ls, k) ==
  LET remaining == Len(ls) - k + 1
  IN IF remaining = 1
       THEN [slides |-> <<SubSeq(ls, k, k)>>, next |-> k + 1]
     ELSE IF remaining = 2
       THEN [slides |-> <<SubSeq(ls, k, k + 1)>>, next |-> k + 2]
     ELSE IF remaining = 3
       THEN [slides |-> <<SubSeq(ls, k, k + 1), SubSeq(ls, k + 2, k + 2)>>,
             next |-> k + 3]
     ELSE [slides |-> <<SubSeq(ls, k, k + 1)>>, next |-> k + 2]

Response(status, message) == [status |-> status, error |-> message]

RouteInit ==
  /\ analysisOf = RouteTable
  /\ lines = <<>>
  /\ headerCentroid = FALSE
  /\ lyricCentroid = FALSE
  /\ backendUp \in BOOLEAN
  /\ embeddingCache = EmptyCache
  /\ pc = "request"
  /\ i = 1
  /\ results = <<>>
  /\ returned = <<>>
  /\ error = ""
  /\ pass1Results = <<>>
  /\ calls = <<>>
  /\ ort = "null" /\ session = "null" /\ isLoading = FALSE /\ loadError = ""
  /\ embedCalls = <<>> /\ earlier = <<>>
  /\ centroidLength = <<EMBEDDING_DIM, EMBEDDING_DIM>>
  /\ lyrics \in SeqsUpTo(RouteRawLines, MaxRawLines)
  /\ groups = <<>>
  /\ \E cache \in {"null", "centroids"} :
       centroidsCache = [route \in {"generate-ppt", "classify-lyrics"} |-> cache]
  /\ slidesContent = <<>>
  /\ handled = <<>>

routeFrame ==
  <<analysisOf, headerCentroid, lyricCentroid, backendUp, embeddingCache,
    pass1Results, ort, session, isLoading, loadError, embedCalls, centroidLength,
    earlier, lyrics>>

\* POST of /api/generate-ppt up to the loop over the groups: the answer 400,
\* or the groups
GeneratePptPost ==
  /\ pc = "request"
  /\ IF lyricsMissing(lyrics)
       THEN /\ returned' = Response(400, "Please provide lyrics")
            /\ pc' = "responded"
            /\ UNCHANGED groups
       ELSE /\ groups' = splitGroups(lyrics)
            /\ pc' = "group"
            /\ UNCHANGED returned
  /\ UNCHANGED <<lines, i, results, error, calls, centroidsCache, slidesContent,
                 handled>>
  /\ UNCHANGED routeFrame

\* one turn of the loop over the groups, up to the grouping loop: the lines
\* of the group, loadClassifier, initializeClassifier when centroidsCache is
\* unset, classifyLines and the filter, or the fallback of the catch block
\* when one of the three throws, and the parentheses put on lines of their own
ClassifyGroup ==
  /\ pc = "group"
  /\ groups # <<>>
  /\ LET group == Head(groups)
         cache == centroidsCache["generate-ppt"]
         init == IF cache = "null" THEN <<"initializeClassifier">> ELSE <<>>
         hasML == \E k \in DOMAIN group : stageOf(group[k]) = "ml-context"
         done(failed, made, rs, kept, newCache) ==
           /\ calls' = calls \o made
           /\ results' = rs
           /\ lines' = processLines(kept)
           /\ centroidsCache' = [centroidsCache EXCEPT !["generate-ppt"] = newCache]
           /\ handled' = Append(handled,
                                [lines |-> group, failed |-> failed, results |-> rs,
                                 kept |-> kept, cacheBefore |-> cache,
                                 firstSlide |-> Len(slidesContent) + 1])
     IN \/ done("loadClassifier", <<"loadClassifier">>, <<>>, fallbackLines(group),
                cache)
        \/ /\ cache = "null"
           /\ done("initializeClassifier", <<"loadClassifier">> \o init, <<>>,
                   fallbackLines(group), cache)
        \/ /\ cache # "null" \/ backendUp
           /\ hasML
           /\ done("classifyLines", <<"loadClassifier">> \o init \o <<"classifyLines">>,
                   <<>>, fallbackLines(group), "centroids")
        \/ /\ cache # "null" \/ backendUp
           /\ backendUp \/ ~hasML
           /\ \E rs \in ResultsOf(group) :
                done("", <<"loadClassifier">> \o init \o <<"classifyLines">>, rs,
                     keepLines(rs), "centroids")
  /\ i' = 1
  /\ pc' = "layout"
  /\ UNCHANGED <<returned, error, groups, slidesContent>>
  /\ UNCHANGED routeFrame

\* one turn of the grouping loop
LayoutStep ==
  /\ pc = "layout"
  /\ i <= Len(lines)
  /\ slidesContent' = slidesContent \o slidesAt(lines, i).slides
  /\ i' = slidesAt(lines, i).next
  /\ UNCHANGED <<pc, lines, results, returned, error, calls, groups, centroidsCache,
                 handled>>
  /\ UNCHANGED routeFrame

\* the grouping loop ends and the loop over the groups goes on
NextGroup ==
  /\ pc = "layout"
  /\ i > Len(lines)
  /\ groups' = Tail(groups)
  /\ pc' = "group"
  /\ UNCHANGED <<i, lines, results, returned, error, calls, centroidsCache,
                 slidesContent, handled>>
  /\ UNCHANGED routeFrame

\* after the last group: the presentation is written and sent, or writing
\* it throws and the outer catch answers 500
GeneratePptRespond ==
  /\ pc = "group"
  /\ groups = <<>>
  /\ calls' = Append(calls, "pptx.write")
  /\ \/ returned' = Response(200, "")
     \/ returned' = Response(500, "Failed to generate presentation. Please try again.")
  /\ pc' = "responded"
  /\ UNCHANGED <<i, lines, results, error, groups, centroidsCache, slidesContent,
                 handled>>
  /\ UNCHANGED routeFrame

\* POST of /api/classify-lyrics: 400, or the classifier is loaded, the
\* centroids initialised when unset, the lines of lyrics.split('\n')
\* classified and the results sent; what throws is answered with 500
ClassifyLyricsPost ==
  /\ pc = "request"
  /\ LET cache == centroidsCache["classify-lyrics"]
         init == IF cache = "null" THEN <<"initializeClassifier">> ELSE <<>>
         hasML == \E k \in DOMAIN lyrics : stageOf(lyrics[k]) = "ml-context"
         done(response, made, rs, newCache) ==
           /\ returned' = response
           /\ calls' = made
           /\ results' = rs
           /\ centroidsCache' = [centroidsCache EXCEPT !["classify-lyrics"] = newCache]
     IN IF lyricsMissing(lyrics)
          THEN done(Response(400, "Please provide lyrics"), <<>>, <<>>, cache)
          ELSE \/ done(Response(500, "Failed to classify lyrics"),
                       <<"loadClassifier">>, <<>>, cache)
               \/ /\ cache = "null"
                  /\ done(Response(500, "Model loading failed"),
                          <<"loadClassifier">> \o init, <<>>, cache)
               \/ /\ cache # "null" \/ backendUp
                  /\ hasML
                  /\ done(Response(500, "Model loading failed"),
                          <<"loadClassifier">> \o init \o <<"classifyLines">>, <<>>,
                          "centroids")
               \/ /\ cache # "null" \/ backendUp
                  /\ backendUp \/ ~hasML
                  /\ \E rs \in ResultsOf(lyrics) :
                       done(Response(200, ""),
                            <<"loadClassifier">> \o init \o <<"classifyLines">>, rs,
                            "centroids")
  /\ pc' = "responded"
  /\ UNCHANGED <<i, lines, error, groups, slidesContent, handled>>
  /\ UNCHANGED routeFrame

RouteNext ==
  \/ GeneratePptPost
  \/ ClassifyGroup
  \/ LayoutStep
  \/ NextGroup
  \/ GeneratePptRespond
  \/ ClassifyLyricsPost

RouteSpec == RouteInit /\ [][RouteNext]_vars


(***************************************************************************)
(* Properties                                                              *)
(***************************************************************************)
Finished == pc \in {"returned", "thrown"}

\* the classifyLine calls of a pass for line k, as positions of the history
CallsOf(pass, k) ==
  {j \in DOMAIN calls : calls[j].pass = pass /\ calls[j].index = k}

\* the line is decided by the Empty, SafeRule, HeuristicLength or
\* HeuristicExclamation state, in the words of the state machine's description
RuleDecided(line) ==
  LET a == Analysis(line)
  IN \/ a.trimmed = ""
     \/ a.safe
     \/ (a.wordCount >= 5 /\ ~a.isSuspicious)
     \/ (a.wordCount <= 3 /\ a.hasExclamation /\ ~a.containsStructuralKeyword)

\* C1: a line whose trimmed text matches a SAFE pattern is Header with
\* confidence 1.0 by rule-safe in the results array at every moment of both
\* passes and in the returned array, whatever its neighbours and the centroids.
C1_SafePrecedence ==
  /\ \A k \in DOMAIN results :
       Analysis(lines[k]).safe =>
         /\ results[k].type = "header"
         /\ results[k].confidence = Unit
         /\ results[k].method = "rule-safe"
  /\ pc = "returned" =>
       \A k \in DOMAIN lines :
         Analysis(lines[k]).safe =>
           /\ returned[k].type = "header"
           /\ returned[k].confidence = Unit
           /\ returned[k].method = "rule-safe"

\* a SAFE line was returned between a neighbour that pass 2 re-evaluated and
\* another line, in a run without centroids
C1_Witness ==
  /\ pc = "returned"
  /\ ~headerCentroid
  /\ \E k \in DOMAIN lines :
       /\ Analysis(lines[k]).safe
       /\ k > 1 /\ k < Len(lines)
       /\ returned[k - 1].reprocessed

\* C2: classifyLines on the five-line scenario never throws and returns the
\* types header, lyric, header, lyric, empty in that order.
C2_Scenario ==
  lines = Scenario =>
    /\ pc # "thrown"
    /\ pc = "returned" =>
         [k \in DOMAIN returned |-> returned[k].type]
           = <<"header", "lyric", "header", "lyric", "empty">>

C2_Witness == lines = Scenario /\ pc = "returned" /\ ~backendUp

\* C3: the results array holds one entry per classified line, entry k carrying
\* the text of input line k, and the returned array has exactly one entry per
\* input line in input order, re-evaluated entries included.
C3_OrderPreserved ==
  /\ Len(results) <= Len(lines)
  /\ \A k \in DOMAIN results : results[k].text = lines[k]
  /\ pc = "returned" =>
       /\ Len(returned) = Len(lines)
       /\ \A k \in DOMAIN lines : returned[k].text = lines[k]

\* a returned array of at least three entries, one of them whitespace only and
\* one re-evaluated in pass 2
C3_Witness ==
  /\ pc = "returned"
  /\ Len(returned) >= 3
  /\ \E k \in DOMAIN returned : returned[k].text = EmptyLine
  /\ \E k \in DOMAIN returned : returned[k].reprocessed

\* C4: once an embedding call has failed, classifyLines has thrown one error,
\* the caller holds no results, the failing line has no verdict (none appended
\* in pass 1, none replaced in pass 2) and the failed call is the last
\* classifyLine call of the run.
C4_FailFast ==
  \A j \in DOMAIN calls :
    calls[j].embed = "fail" =>
      /\ pc = "thrown"
      /\ error # ""
      /\ returned = <<>>
      /\ j = Len(calls)
      /\ calls[j].pass = 1 => Len(results) = calls[j].index - 1
      /\ calls[j].pass = 2 => results[calls[j].index] = pass1Results[calls[j].index]

\* an embedding call failed after two lines had been classified, one of them
\* with an embedding
C4_Witness ==
  /\ Len(calls) >= 3
  /\ calls[Len(calls)].embed = "fail"
  /\ \E j \in DOMAIN calls : calls[j].embed = "miss"

\* C5: no classifyLine call for a line decided by the Empty, SafeRule,
\* HeuristicLength or HeuristicExclamation state calls the embedding, in
\* either pass, and each such call yields its verdict; with the backend down
\* classifyLines never throws on a sequence made only of such lines.
C5_RuleLinesNeedNoBackend ==
  /\ \A j \in DOMAIN calls :
       RuleDecided(lines[calls[j].index]) =>
         /\ calls[j].embed = "none"
         /\ calls[j].index \in DOMAIN results
         /\ results[calls[j].index].method
              \in {"rule", "rule-safe", "heuristic-length", "heuristic-exclamation"}
  /\ (~backendUp /\ \A k \in DOMAIN lines : RuleDecided(lines[k])) => pc # "thrown"

\* with the backend down and no centroids, a sequence holding a line of each
\* of the four states was classified and returned
C5_Witness ==
  /\ ~backendUp /\ ~headerCentroid /\ ~lyricCentroid
  /\ pc = "returned"
  /\ {returned[k].method : k \in DOMAIN returned}
       = {"rule", "rule-safe", "heuristic-length", "heuristic-exclamation"}

\* C6: when a pass-2 classifyLine call is made, a pass-1 call has been made
\* before it for every line of the sequence, and pass 1 makes no call after it.
C6_Pass2AfterPass1 ==
  \A j \in DOMAIN calls :
    calls[j].pass = 2 =>
      /\ \A k \in DOMAIN lines : \E m \in 1..(j - 1) : m \in CallsOf(1, k)
      /\ \A m \in DOMAIN calls : m > j => calls[m].pass = 2

\* a line other than the first was re-evaluated in a sequence of three lines
C6_Witness ==
  /\ Len(lines) >= 3
  /\ \E j \in DOMAIN calls : calls[j].pass = 2 /\ calls[j].index > 1

\* the pass-1 verdict of line k asks for a second look
Pass1Doubtful(k) ==
  \/ pass1Results[k].type = "uncertain"
  \/ (pass1Results[k].type = "header"
        /\ pass1Results[k].confidence < LOW_HEADER_CONFIDENCE)

C8_CountFromPass1 ==
  \A j \in DOMAIN calls :
    calls[j].pass = 2 =>
      calls[j].surroundingLyricCount
        = countSurroundingLyrics(pass1Results, calls[j].index)

\* C9 (counts): every line is classified at most once in each pass, exactly
\* once in pass 1 when classifyLines returns, and there are no other passes.
C9_CallCounts ==
  /\ \A j \in DOMAIN calls : calls[j].pass \in {1, 2}
  /\ \A k \in DOMAIN lines :
       /\ Cardinality(CallsOf(1, k)) <= 1
       /\ Cardinality(CallsOf(2, k)) <= 1
       /\ pc \in {"pass2", "returned"} => Cardinality(CallsOf(1, k)) = 1
  /\ Len(calls) <= 2 * Len(lines)

\* the number of steps classifyLines can still take, at most
StepsLeft ==
  CASE pc = "pass1" -> 2 * Len(lines) + 3 - i
    [] pc = "pass2" -> Len(lines) + 2 - i
    [] OTHER -> 0

\* C9: classifyLines terminates: every step lowers a measure that starts at
\* 2n + 2 for n lines and reaches 0 exactly when classifyLines has returned or
\* thrown, so no run takes more than 2n + 2 steps; meanwhile each line is
\* classified once in pass 1 and at most once in pass 2, and nothing is
\* classified a third time.
C9_Terminates ==
  /\ [](C9_CallCounts /\ StepsLeft >= 0 /\ (StepsLeft = 0 <=> Finished))
  /\ [][StepsLeft' < StepsLeft]_vars

\* a run returned after re-evaluating two of at least three lines
C9_Witness ==
  /\ pc = "returned"
  /\ Len(lines) >= 3
  /\ Cardinality({k \in DOMAIN lines : CallsOf(2, k) # {}}) >= 2

\* the line is not empty, matches no SAFE pattern, has 5 words or more and is
\* not flagged suspicious
LongPlain(line) ==
  LET a == Analysis(line)
  IN a.trimmed # "" /\ ~a.safe /\ a.wordCount >= 5 /\ ~a.isSuspicious

\* C10: a non-empty line that matches no SAFE pattern, has 5 words or more and
\* is not suspicious is Lyric with confidence 0.95 by heuristic-length in every
\* context, with or without a structural keyword; it is never embedded and
\* never re-evaluated.  The four lyric lines of the test corpus are such lines.
C10_LongLinesAreLyrics ==
  /\ \A k \in DOMAIN results :
       LongPlain(lines[k]) =>
         /\ results[k].type = "lyric"
         /\ results[k].confidence = 950000
         /\ results[k].method = "heuristic-length"
         /\ ~results[k].reprocessed
  /\ \A j \in DOMAIN calls :
       LongPlain(lines[calls[j].index]) =>
         calls[j].pass = 1 /\ calls[j].embed = "none"
  /\ pc = "returned" => \A k \in DOMAIN lines :
       LongPlain(lines[k]) => returned[k] = pass1Results[k]
  /\ calls = <<>> => \A t \in KeywordLyrics :
       LET r == classifyLine(t, headerCentroid, lyricCentroid,
                             [previous |-> NoLine, next |-> NoLine,
                              surroundingLyricCount |-> 0],
                             embeddingCache, Failure)
       IN /\ LongPlain(t)
          /\ ~r.threw /\ r.embed = "none"
          /\ r.result.type = "lyric" /\ r.result.confidence = 950000
          /\ r.result.method = "heuristic-length"
          /\ ~needsReview(Entry(t, r.result, FALSE))

\* a five-word line holding a structural keyword was returned as a lyric
\* between two re-evaluated lines
C10_Witness ==
  /\ pc = "returned"
  /\ \E k \in DOMAIN lines :
       /\ LongPlain(lines[k])
       /\ Analysis(lines[k]).wordCount = 5
       /\ Analysis(lines[k]).containsStructuralKeyword
       /\ k > 1 /\ k < Len(lines)
       /\ returned[k - 1].reprocessed /\ returned[k + 1].reprocessed
       /\ returned[k].type = "lyric"

\* the line is not empty, matches no SAFE pattern, has at most 3 words, holds
\* an exclamation mark and no structural keyword
ShortExclamation(line) ==
  LET a == Analysis(line)
  IN /\ a.trimmed # "" /\ ~a.safe
     /\ a.wordCount <= 3 /\ a.hasExclamation /\ ~a.containsStructuralKeyword

\* C11: a non-empty line that matches no SAFE pattern, has at most 3 words,
\* holds an exclamation mark and no structural keyword is Lyric with confidence
\* 0.85 by heuristic-exclamation at every call, suspicious or not, with or
\* without centroids, and no call embeds anything.  "*Hey!*", "Hey!" and
\* "Go go go!" are such lines; four words or a keyword take the line out.
C11_ExclamationsAreLyrics ==
  /\ calls = <<>> =>
       /\ lines[1] \in {"*Hey!*", "Hey!", "Go go go!"} => ShortExclamation(lines[1])
       /\ lines[1] \in {"Go go go go!", "Drop it!"} => ~ShortExclamation(lines[1])
  /\ ShortExclamation(lines[1]) =>
       /\ pc # "thrown"
       /\ embeddingCache = EmptyCache
       /\ Len(results) = Len(calls)
       /\ \A k \in DOMAIN calls :
            /\ calls[k].embed = "none"
            /\ results[k].type = "lyric"
            /\ results[k].confidence = 850000
            /\ results[k].method = "heuristic-exclamation"

\* a three-word exclamation was classified twice without centroids
C11_Witness ==
  /\ lines = <<"Go go go!">>
  /\ ~headerCentroid /\ ~lyricCentroid
  /\ Len(results) = 2
  /\ results[2].method = "heuristic-exclamation"

\* the scaled similarities as the MLContext state describes them, from the
\* text of the line, the raw similarities in hundredths and the lyric count
ScaledHeader(line, h) ==
  LET a == Analysis(line)
  IN h * (IF a.isSuspicious THEN 125 ELSE 100)
       * (IF a.wordCount <= 2 /\ a.hasAllCaps /\ a.charCount <= 20
            THEN 115 ELSE 100)

ScaledLyric(line, l, count) ==
  LET a == Analysis(line)
  IN l * (IF count >= 3 THEN 115 ELSE 100)
       * (IF a.wordCount >= 4 /\ a.containsStructuralKeyword THEN 120 ELSE 100)

C13_AsStated ==
  \A k \in DOMAIN results :
    results[k].method = "ml-context" =>
      LET e == results[k]
      IN IF e.confidence < CONFIDENCE_THRESHOLD
           THEN e.type = IF Analysis(lines[1]).isSuspicious
                              /\ e.headerSim * 10 >= e.lyricSim * 9
                           THEN "header" ELSE "uncertain"
           ELSE e.type = IF e.headerSim > e.lyricSim THEN "header" ELSE "lyric"

\* C13: below 0.10 the verdict is Uncertain, except Header (with the same
\* confidence) for a suspicious line whose scaled header similarity is more
\* than 90% of the scaled lyric similarity; from 0.10 on the verdict of the
\* comparison stands.
C13_Threshold ==
  \A k \in DOMAIN results :
    results[k].method = "ml-context" =>
      LET e == results[k]
      IN IF e.confidence < CONFIDENCE_THRESHOLD
           THEN /\ e.type = IF Analysis(lines[1]).isSuspicious
                                 /\ e.headerSim * 10 > e.lyricSim * 9
                              THEN "header" ELSE "uncertain"
                /\ e.confidence = Abs(e.headerSim - e.lyricSim)
           ELSE e.type = IF e.headerSim > e.lyricSim THEN "header" ELSE "lyric"

\* a suspicious line scored lower as header than as lyric, by less than 0.10,
\* and was made Header
C13_Witness ==
  \E k \in DOMAIN results :
    /\ results[k].method = "ml-context"
    /\ results[k].type = "header"
    /\ results[k].bias = "suspicious-pattern"
    /\ results[k].headerSim < results[k].lyricSim
    /\ results[k].confidence < CONFIDENCE_THRESHOLD

\* C14: every classification has a confidence in [0, 1].
C14_ConfidenceInUnitInterval ==
  \A k \in DOMAIN results :
    results[k].confidence >= 0 /\ results[k].confidence <= Unit

\* the neighbours of line k within WINDOW_SIZE whose trimmed text is not empty
NonEmptyNeighbours(k) ==
  {n \in DOMAIN lines :
     /\ n # k /\ n >= k - WINDOW_SIZE /\ n <= k + WINDOW_SIZE
     /\ Analysis(lines[n]).trimmed # ""}

\* C15: a line whose trimmed text is empty is Empty with confidence 1.0 by
\* the first rule, with no features (no pattern was tried on it); the call on
\* it embeds nothing and is never the call that throws; the second pass never
\* calls classifyLine on it; and no lyric count of another line includes it.
C15_EmptyLines ==
  /\ \A k \in DOMAIN lines :
       Analysis(lines[k]).trimmed = "" =>
         /\ \A j \in DOMAIN calls :
              calls[j].index = k => calls[j].pass = 1 /\ calls[j].embed = "none"
         /\ ~(pc = "thrown" /\ i = k)
         /\ k \in DOMAIN results =>
              /\ results[k].type = "empty"
              /\ results[k].confidence = Unit
              /\ results[k].method = "rule"
              /\ ~results[k].features.present
              /\ ~results[k].reprocessed
         /\ pc = "returned" => returned[k].type = "empty"
  /\ \A j \in DOMAIN calls :
       calls[j].pass = 2 =>
         calls[j].surroundingLyricCount
           <= Cardinality(NonEmptyNeighbours(calls[j].index))

\* a whitespace-only line between a lyric and a lone keyword that the second
\* pass re-evaluated: the keyword's lyric count is 1
C15_Witness ==
  /\ pc = "returned"
  /\ lines = <<LongLyric, " \t", KeywordAlone>>
  /\ \E j \in DOMAIN calls :
       calls[j].pass = 2 /\ calls[j].index = 3 /\ calls[j].surroundingLyricCount = 1

\* the misspellings the tests expect to be headers
Misspellings ==
  {"Chrous", "Briddge", "Inro", "Virse 2", "Chrus", "BRIGE", "Vers 3", "Vrs 1",
   "CHORU5"}

\* C16: "Chrous", "Briddge", "Inro", "Virse 2", "Chrus", "BRIGE", "Vers 3",
\* "Vrs 1" and "CHORU5" are Header with confidence 1.0 whatever lines surround
\* them, in both passes and in the array returned; the call on such a line
\* never throws.
C16_MisspellingsAreHeaders ==
  /\ Misspellings \subseteq MiddleLines
  /\ \A k \in DOMAIN lines :
       lines[k] \in Misspellings =>
         /\ ~(pc = "thrown" /\ i = k)
         /\ k \in DOMAIN results =>
              results[k].type = "header" /\ results[k].confidence = Unit
         /\ pc = "returned" =>
              returned[k].type = "header" /\ returned[k].text = lines[k]

\* "Virse 2" came back as a header from among four neighbours, two of them
\* re-evaluated by the second pass
C16_Witness ==
  /\ pc = "returned"
  /\ lines = <<KeywordAlone, LongLyric, "Virse 2", LongLyric, KeywordAlone>>
  /\ returned[3].type = "header"
  /\ returned[1].reprocessed /\ returned[5].reprocessed

\* lines that hold a misspelling of the table with other words around it
MisspellingAmongWords ==
  {"Chrous again", "my Briddge", "Inro song", "Virse 2 again",
   "sing CHORU5 loud", "oh Vers 3"}

\* C17: a misspelling of the table makes a line SAFE only as the whole trimmed
\* line (for the verse misspellings, with the number the table allows after
\* them): a line that holds one among other words matches no misspelling
\* pattern, although the pattern is found inside it, and no call on it answers
\* by the SAFE rule.
C17_MisspellingsWholeLineOnly ==
  /\ MisspellingAmongWords \subseteq LineTexts
  /\ lines[1] \in MisspellingAmongWords =>
       /\ calls = <<>> =>
            LET trimmed == TrimChars(Chars(lines[1]))
            IN /\ SplitCount(trimmed) >= 2
               /\ \E k \in DOMAIN commonMisspellings :
                    TestSearch(commonMisspellings[k].re, commonMisspellings[k].ci,
                               trimmed)
               /\ ~AnyMatch(commonMisspellings, trimmed)
       /\ ~Analysis(lines[1]).safe
       /\ \A k \in DOMAIN results : results[k].method # "rule-safe"
  /\ lines[1] \in {"Chrous", "Virse 2"} =>
       \A k \in DOMAIN results : results[k].method = "rule-safe"

\* a line with a misspelling in it went to the model and came back as a lyric
C17_Witness ==
  /\ lines[1] \in MisspellingAmongWords
  /\ \E k \in DOMAIN results :
       results[k].method = "ml-context" /\ results[k].type = "lyric"

\* C19: a line that matches no SAFE pattern and has verdict Header has it from
\* the MLContext stage: both centroids were given, the call embedded the line
\* (or found its embedding cached) and the scaled header similarity won the
\* comparison or, the line being suspicious, came within the bias.  A suspicious line
\* decided by the exclamation rule is a lyric.
C19_SuspiciousNeverDecides ==
  \A k \in DOMAIN results :
    /\ (results[k].type = "header" /\ ~Analysis(lines[k]).safe) =>
         /\ results[k].method = "ml-context"
         /\ headerCentroid /\ lyricCentroid
         /\ Analysis(lines[k]).cacheKey \in DOMAIN embeddingCache
         /\ \E j \in DOMAIN calls :
              calls[j].index = k /\ calls[j].embed \in {"hit", "miss"}
         /\ \/ results[k].headerSim > results[k].lyricSim
            \/ /\ Analysis(lines[k]).isSuspicious
               /\ results[k].bias = "suspicious-pattern"
               /\ results[k].headerSim * 10 > results[k].lyricSim * 9
    /\ (Analysis(lines[k]).isSuspicious /\ ~Analysis(lines[k]).safe
          /\ results[k].method # "ml-context") =>
         results[k].type = "lyric"

\* a lone keyword that is not SAFE came back as a header, the model having
\* embedded it
C19_Witness ==
  /\ pc = "returned"
  /\ \E k \in DOMAIN returned :
       /\ lines[k] = KeywordAlone
       /\ ~Analysis(lines[k]).safe /\ Analysis(lines[k]).isSuspicious
       /\ returned[k].type = "header"
       /\ returned[k].method = "ml-context"

\* the trimmed line consists of 2 to 20 uppercase letters
ShortCapsToken(line) ==
  LET trimmed == TrimChars(Chars(line))
  IN /\ Len(trimmed) >= 2 /\ Len(trimmed) <= 20
     /\ \A k \in DOMAIN trimmed : trimmed[k] \in Upper

\* C20: every line of 2 to 20 uppercase letters is flagged suspicious: the
\* features classifyLine extracts from such a line say isSuspicious.
C20_ShortCapsSuspicious ==
  \A k \in DOMAIN results :
    (ShortCapsToken(lines[1]) /\ results[k].features.present) =>
      results[k].features.isSuspicious

SameNormalized(a, b) ==
  analysisOf[embedCalls[a].text].tokens = analysisOf[embedCalls[b].text].tokens

\* the cache entries whose key is the normalized text of call c
EntriesFor(c) ==
  {k \in DOMAIN embeddingCache :
     analysisOf[k].tokens = analysisOf[embedCalls[c].text].tokens}

\* the second call took the vector from the cache: no loadModel, no run
ServedFromCache(b) ==
  /\ embedCalls[b].hit
  /\ embedCalls[b].pc = "returned"
  /\ embedCalls[b].modelSession = "null"
  /\ embedCalls[b].kept => Cardinality(EntriesFor(b)) = 1

\* C22 as stated: of two sequential embedText calls for the same normalized
\* text with no clearCache in between, the second returns the very object
\* the first returned, without load or inference, the cache holding one
\* entry for the key
C22_AsStated ==
  pc \in {"module", "embedText", "clearCache"} =>
    \A b \in DOMAIN embedCalls :
      \A a \in embedCalls[b].after :
        SameNormalized(a, b) =>
          /\ ServedFromCache(b)
          /\ embedCalls[b].result.ref = embedCalls[a].result.ref

\* C22 amended: the second call is served from the cache without load or
\* inference, the cache holds one entry for the key, and the vector returned
\* is value-equal to the first call's: the very same object, unless another
\* call for the key that had missed the cache stored its own vector between
\* the two
C22_SecondCallFromCache ==
  pc \in {"module", "embedText", "clearCache"} =>
    \A b \in DOMAIN embedCalls :
      \A a \in embedCalls[b].after :
        SameNormalized(a, b) =>
          /\ ServedFromCache(b)
          /\ embedCalls[b].result.value = embedCalls[a].result.value
          /\ \/ embedCalls[b].result.ref = embedCalls[a].result.ref
             \/ \E x \in DOMAIN embedCalls \ {a, b} :
                  /\ SameNormalized(x, b)
                  /\ ~embedCalls[x].hit
                  /\ embedCalls[x].pc = "returned"
                  /\ embedCalls[x].result = embedCalls[b].result

C22_Witness ==
  \E b \in DOMAIN embedCalls :
    \E a \in embedCalls[b].after :
      /\ SameNormalized(a, b)
      /\ embedCalls[a].text # embedCalls[b].text
      /\ ~embedCalls[a].hit
      /\ embedCalls[b].hit
      /\ embedCalls[b].result = embedCalls[a].result
      /\ Cardinality(DOMAIN embeddingCache) = 1

\* C23: a step that is not clearCache keeps every cached key with the same
\* components and does not shrink the cache; a clearCache step leaves the
\* cache empty, with size 0 and no keys
C23_CacheKeptUntilClear ==
  [][IF pc' = "clearCache"
       THEN /\ embeddingCache' = EmptyCache
            /\ getCacheStats'.size = 0
            /\ getCacheStats'.keys = {}
       ELSE /\ \A k \in DOMAIN embeddingCache :
                 /\ k \in DOMAIN embeddingCache'
                 /\ embeddingCache'[k].value = embeddingCache[k].value
            /\ getCacheStats'.size >= getCacheStats.size]_vars

C23_Witness ==
  /\ pc = "embedText"
  /\ getCacheStats.size = 2
  /\ \E c \in DOMAIN embedCalls :
       /\ embedCalls[c].pc = "returned"
       /\ ~embedCalls[c].hit
       /\ ~embedCalls[c].kept

\* C24: calls for the same normalized text return value-equal vectors
\* however they interleave, and while no clearCache has followed a call's
\* return the cache has exactly one entry for its key, holding that value
C24_ConcurrentSameText ==
  pc \in {"module", "embedText", "clearCache"} =>
    /\ \A a, b \in DOMAIN embedCalls :
         (/\ SameNormalized(a, b)
          /\ embedCalls[a].pc = "returned"
          /\ embedCalls[b].pc = "returned")
           => embedCalls[a].result.value = embedCalls[b].result.value
    /\ \A a \in DOMAIN embedCalls :
         (embedCalls[a].pc = "returned" /\ embedCalls[a].kept) =>
           /\ Cardinality(EntriesFor(a)) = 1
           /\ \A k \in EntriesFor(a) :
                embeddingCache[k].value = embedCalls[a].result.value

C24_Witness ==
  /\ InFlight = {}
  /\ \E b \in DOMAIN embedCalls :
       \E a \in embedCalls[b].during :
         /\ SameNormalized(a, b)
         /\ embedCalls[a].text # embedCalls[b].text
         /\ ~embedCalls[a].hit /\ ~embedCalls[b].hit
         /\ embedCalls[a].pc = "returned" /\ embedCalls[b].pc = "returned"
         /\ embedCalls[a].kept /\ embedCalls[b].kept
         /\ embedCalls[a].result.ref # embedCalls[b].result.ref

\* C25 as stated: where the model cannot be loaded, every embedText call
\* that fails fails with 'Model loading failed', the calls that waited for
\* the load in flight included, and none goes on with a missing session
C25_AsStated ==
  (pc \in {"module", "embedText", "clearCache"} /\ ~backendUp) =>
    \A c \in DOMAIN embedCalls :
      /\ embedCalls[c].pc = "failed" => embedCalls[c].error = "Model loading failed"
      /\ embedCalls[c].pc \notin {"loaded", "inferring"}

\* the calls that started a load: those importing or creating, the one
\* whose load gave the session it holds, and those whose load failed
Loaders ==
  {c \in DOMAIN embedCalls :
     \/ embedCalls[c].pc \in {"importing", "creating"}
     \/ embedCalls[c].modelSession = SessionOf(c)
     \/ embedCalls[c].error = "Model loading failed"}

LoadsInFlight ==
  {c \in DOMAIN embedCalls : embedCalls[c].pc \in {"importing", "creating"}}

C26_LazySingleFlight ==
  pc \in {"module", "embedText", "clearCache"} =>
    /\ (\A c \in DOMAIN embedCalls : embedCalls[c].hit) =>
         (ort = "null" /\ session = "null" /\ ~isLoading /\ Loaders = {})
    /\ \A c \in Loaders : ~embedCalls[c].hit
    /\ Cardinality(LoadsInFlight) <= 1
    /\ isLoading <=> LoadsInFlight # {}
    /\ session # "null" => LoadsInFlight = {}

C26_SessionKept ==
  session # "null" => (session' = session /\ ~isLoading' /\ Loaders' = Loaders)

\* C26: nothing is loaded before an embedText call misses the cache, at
\* most one load is in flight at any time, and after a load has succeeded
\* no load is started and the session stays the one that was created
C26_LoadedOnceOnDemand == [](C26_LazySingleFlight) /\ [][C26_SessionKept]_vars

C26_Witness ==
  /\ session # "null"
  /\ InFlight = {}
  /\ Cardinality(Loaders) = 1
  /\ \E a \in Loaders :
       \E b, c \in DOMAIN embedCalls :
         /\ a \in embedCalls[b].during
         /\ embedCalls[b].modelSession = SessionOf(a)
         /\ b \in embedCalls[c].after
         /\ ~embedCalls[c].hit
         /\ embedCalls[c].modelSession = SessionOf(a)
         /\ embedCalls[c].pc = "returned"

LengthsDiffer == centroidLength # <<EMBEDDING_DIM, EMBEDDING_DIM>>

C28_InputsUntouched ==
  [][/\ lines' = lines
     /\ headerCentroid' = headerCentroid
     /\ lyricCentroid' = lyricCentroid
     /\ centroidLength' = centroidLength
     /\ \A k \in DOMAIN embeddingCache :
          /\ k \in DOMAIN embeddingCache'
          /\ embeddingCache'[k] = embeddingCache[k]]_vars

C28_Witness ==
  /\ pc = "returned"
  /\ \E k \in DOMAIN lines : lines[k] = "  "
  /\ embeddingCache # EmptyCache
  /\ \E j \in DOMAIN calls : calls[j].embed = "miss"
  /\ \E j \in DOMAIN calls : calls[j].pass = 2 /\ calls[j].embed = "hit"
  /\ \E k \in DOMAIN returned : returned[k].reprocessed

MissingCentroidError == "ML classification requires headerCentroid and lyricCentroid"

\* C29: with the header or the lyric centroid missing, a line of the
\* MLContext stage makes classifyLine throw at once, with no embedText call
\* and nothing cached, and a line of another stage is classified by its rule
C29_NoMLWithoutCentroids ==
  (pc \in {"call", "thrown"} /\ (~headerCentroid \/ ~lyricCentroid)) =>
    IF stageOf(lines[1]) = "ml-context"
      THEN calls # <<>> =>
             /\ pc = "thrown"
             /\ error = MissingCentroidError
             /\ Len(calls) = 1
             /\ calls[1].embed = "none"
             /\ embeddingCache = EmptyCache
             /\ results = <<>>
      ELSE /\ pc = "call"
           /\ Len(results) = Len(calls)
           /\ embeddingCache = EmptyCache
           /\ \A k \in DOMAIN results :
                /\ results[k].method \notin {"ml-context", "none"}
                /\ results[k].type \in {"header", "lyric", "empty"}
                /\ calls[k].embed = "none"

C29_Witness ==
  /\ headerCentroid /\ ~lyricCentroid
  /\ backendUp
  /\ stageOf(lines[1]) = "ml-context"
  /\ pc = "thrown"
  /\ error = MissingCentroidError
  /\ calls[1].embed = "none"

LoneContext == [previous |-> NoLine, next |-> NoLine, surroundingLyricCount |-> 0]

\* what classifyLine gives for the line with no neighbours at all, the
\* embedding being the one the cache holds for it
AloneResult(text) ==
  classifyLine(text, headerCentroid, lyricCentroid, LoneContext, embeddingCache,
               Failure).result

SameVerdict(a, b) ==
  /\ a.type = b.type
  /\ a.confidence = b.confidence
  /\ a.method = b.method

\* C30: the pass-1 type, confidence and method of a line are those
\* classifyLine gives for its text alone, whatever the other lines are, and
\* so is the final result of a line that pass 2 does not reprocess; two
\* positions with the same text agree
C30_Pass1LineAlone ==
  pc \in {"pass1", "pass2", "returned"} =>
    /\ \A k \in DOMAIN results :
         (pc = "pass1" \/ ~results[k].reprocessed) =>
           SameVerdict(results[k], AloneResult(lines[k]))
    /\ \A k \in DOMAIN pass1Results :
         SameVerdict(pass1Results[k], AloneResult(lines[k]))
    /\ \A k \in DOMAIN returned :
         ~returned[k].reprocessed =>
           /\ SameVerdict(returned[k], AloneResult(lines[k]))
           /\ \A j \in DOMAIN returned :
                (lines[j] = lines[k] /\ ~returned[j].reprocessed) =>
                  SameVerdict(returned[j], returned[k])

C30_Witness ==
  /\ pc = "returned"
  /\ \E k, j \in DOMAIN returned :
       /\ lines[k] = lines[j]
       /\ returned[k].method = "ml-context"
       /\ ~returned[k].reprocessed /\ ~returned[j].reprocessed
       /\ returned[k].features.previousLineEmpty
       /\ ~returned[j].features.previousLineEmpty
  /\ \E k \in DOMAIN returned : returned[k].reprocessed

\* the lines of seq at the positions that pass the test, in their order
Chosen(seq, Pass(_)) ==
  LET idx == {k \in DOMAIN seq : Pass(k)}
      nth(r) == CHOOSE k \in idx : Cardinality({j \in idx : j <= k}) = r
  IN [r \in 1..Cardinality(idx) |-> seq[nth(r)]]

\* C31: for a group whose classification succeeded, the lines handed on are
\* the lines of the group classified lyric or uncertain, in their order, and
\* layout starts from them with the parentheses put on lines of their own
C31_OnlyLyricsReachSlides ==
  pc \in {"request", "group", "layout", "responded"} =>
    \A g \in DOMAIN handled :
      handled[g].failed = "" =>
        LET h == handled[g]
            keeps(k) == h.results[k].type \in {"lyric", "uncertain"}
        IN /\ Len(h.results) = Len(h.lines)
           /\ \A k \in DOMAIN h.lines : h.results[k].text = h.lines[k]
           /\ h.kept = Chosen(h.lines, keeps)
           /\ (g = Len(handled) /\ pc = "layout") => lines = processLines(h.kept)

C31_Witness ==
  /\ pc = "responded"
  /\ returned.status = 200
  /\ \E g \in DOMAIN handled :
       /\ handled[g].failed = ""
       /\ Len(handled[g].lines) = 3
       /\ handled[g].results[1].type = "header"
       /\ handled[g].results[2].type = "uncertain"
       /\ handled[g].results[3].type = "lyric"
       /\ handled[g].lines[1] = handled[g].lines[3]
       /\ Len(handled[g].kept) = 2

\* the lyrics field is missing or empty, or holds whitespace only
NoLyrics == lyrics = <<>> \/ \A k \in DOMAIN lyrics : Analysis(lyrics[k]).trimmed = ""

\* C32: a request of either route with no lyrics is answered 400 with a
\* message; the classifier is not loaded, no centroid initialised, nothing
\* classified and no presentation made
C32_NoLyricsIs400 ==
  (pc = "responded" /\ NoLyrics) =>
    /\ returned.status = 400
    /\ returned.error # ""
    /\ calls = <<>>
    /\ results = <<>>
    /\ handled = <<>>
    /\ slidesContent = <<>>

C32_Witness ==
  /\ pc = "responded"
  /\ lyrics = <<" ", "", " ">>
  /\ returned.status = 400
  /\ calls = <<>>

RECURSIVE Flatten(_)
Flatten(ss) == IF ss = <<>> THEN <<>> ELSE Head(ss) \o Flatten(Tail(ss))

\* the slides made for the g-th group handled
SlidesOf(g) ==
  SubSeq(slidesContent, handled[g].firstSlide,
         IF g < Len(handled) THEN handled[g + 1].firstSlide - 1
                             ELSE Len(slidesContent))

\* the groups whose grouping loop has ended
GroupDone(g) == g < Len(handled) \/ pc \in {"group", "responded"}

\* C33: when loading, initialising or running the classifier throws for a
\* group, the group keeps every line but the bracketed ones, in order, the
\* request goes on to the last group and to the presentation, a failed
\* initialisation leaves centroidsCache unset for the next group, and the
\* groups handled before keep their slides
C33_FallbackOnFailure ==
  pc \in {"request", "group", "layout", "responded"} =>
    \A g \in DOMAIN handled :
      handled[g].failed # "" =>
        LET h == handled[g]
            keeps(k) == ~isBracketed(h.lines[k])
        IN /\ h.kept = Chosen(h.lines, keeps)
           /\ error = ""
           /\ pc = "responded" =>
                /\ Len(handled) = Len(splitGroups(lyrics))
                /\ calls[Len(calls)] = "pptx.write"
           /\ h.failed = "initializeClassifier" =>
                /\ h.cacheBefore = "null"
                /\ IF g < Len(handled)
                     THEN handled[g + 1].cacheBefore = "null"
                     ELSE centroidsCache["generate-ppt"] = "null"
           /\ \A f \in 1..(g - 1) : Flatten(SlidesOf(f)) = processLines(handled[f].kept)
           /\ GroupDone(g) => Flatten(SlidesOf(g)) = processLines(h.kept)

C33_Witness ==
  /\ pc = "responded"
  /\ returned.status = 200
  /\ Len(handled) = 2
  /\ handled[1].failed = "initializeClassifier"
  /\ handled[1].lines = <<"CHORUS">>
  /\ handled[1].kept = <<"CHORUS">>
  /\ handled[2].failed = ""
  /\ handled[2].cacheBefore = "null"
  /\ centroidsCache["generate-ppt"] = "centroids"
  /\ Len(slidesContent) = 2

\* the slides so far are those the grouping loop has made of the lines
\* before its index, of one or two lines each, one line only on the last
\* slide of a group with an odd number of lines
C34_SlidesOfGroups ==
  pc \in {"request", "group", "layout", "responded"} =>
    /\ pc = "layout" =>
         /\ i \in 1..(Len(lines) + 1)
         /\ Flatten(SlidesOf(Len(handled))) = SubSeq(lines, 1, i - 1)
    /\ \A s \in DOMAIN slidesContent : Len(slidesContent[s]) \in {1, 2}
    /\ \A g \in DOMAIN handled :
         GroupDone(g) =>
           LET ss == SlidesOf(g)
               ls == processLines(handled[g].kept)
           IN /\ Flatten(ss) = ls
              /\ \A s \in DOMAIN ss :
                   Len(ss[s]) = 1 => (s = Len(ss) /\ Len(ls) % 2 = 1)

\* a turn of the grouping loop moves the index on
C34_LoopAdvances == (pc = "layout" /\ pc' = "layout") => (i' > i /\ lines' = lines)

\* C34: the grouping loop ends for every group, every slide has one or two
\* lines, one only as the last slide of a group with an odd number of lines,
\* and the slides of a group hold its lines once each, in order
C34_GroupingLoop == [](C34_SlidesOfGroups) /\ [][C34_LoopAdvances]_vars

C34_Witness ==
  /\ pc = "responded"
  /\ \E g \in DOMAIN handled :
       /\ Len(processLines(handled[g].kept)) = 5
       /\ Len(SlidesOf(g)) = 3
       /\ Len(SlidesOf(g)[3]) = 1

\* C35: classifyLine called with a line only returns a classification and
\* does not raise for every line the heuristic stages decide (Lyric 0.95 for
\* a line of five or more words that is not suspicious, Lyric 0.85 for a short
\* exclamation), as it would with null neighbours.  As stated this does not
\* hold of the code: the call raises a TypeError for every such line.
C35_AsStated ==
  \A t \in Texts :
    (lines = <<t>> /\ calls # <<>>
       /\ stageOf(t) \in {"heuristic-length", "heuristic-exclamation"})
      => /\ pc # "thrown"
         /\ \A k \in DOMAIN results :
              SameVerdict(results[k], AloneResult(t))

\* C36: the boosts of the ML stage are monotone.  With the raw similarities
\* and all other features fixed, the suspicious flag and the short-all-caps
\* condition never turn the comparison verdict (margin > 0) from Header to
\* Lyric, and the lyric-density and the long-line-with-keyword condition
\* never turn it from Lyric to Header, negative similarities included.  As
\* stated this does not hold of the code: a negative similarity times a
\* factor above 1 gets smaller.
C36_AsStated ==
  \A k \in DOMAIN results :
    (results[k].method = "ml-context"
       /\ Analysis(lines[1]).cacheKey \in DOMAIN embeddingCache)
      => LET sims == embeddingCache[Analysis(lines[1]).cacheKey]
             f == results[k].features
             count == calls[k].surroundingLyricCount
             Verdict(ff, c) ==
               classifyWithML(sims[1], sims[2], ff,
                              [previous |-> NoLine, next |-> NoLine,
                               surroundingLyricCount |-> c]).type
             isHeader == results[k].headerSim > results[k].lyricSim
         IN /\ (f.isSuspicious
                  /\ Verdict([f EXCEPT !.isSuspicious = FALSE], count) = "header")
                 => isHeader
            /\ (f.wordCount <= 2 /\ f.hasAllCaps /\ f.charCount <= 20
                  /\ Verdict([f EXCEPT !.hasAllCaps = FALSE], count) = "header")
                 => isHeader
            /\ (count >= 3 /\ Verdict(f, 0) = "lyric") => ~isHeader
            /\ (f.wordCount >= 4 /\ f.containsStructuralKeyword
                  /\ Verdict([f EXCEPT !.containsStructuralKeyword = FALSE],
                             count) = "lyric")
                 => ~isHeader

\* C37: pass 2 never turns lyric content into a header.  A line whose pass-1
\* verdict is Lyric has a final verdict other than Header, whatever the
\* similarities of its embedding in [-1, 1] and however many lyrics surround
\* it.
C37_LyricNeverTurnsHeader ==
  \A k \in DOMAIN pass1Results :
    pass1Results[k].type = "lyric"
      => /\ results[k].type # "header"
         /\ pc = "returned" => returned[k].type # "header"

\* a suspicious line the model took for a lyric in pass 1 was classified
\* again with three or more lyrics around it, and the lyric boost changed its
\* confidence
C37_Witness ==
  /\ pc = "returned"
  /\ \E k \in DOMAIN returned :
       /\ pass1Results[k].type = "lyric"
       /\ pass1Results[k].method = "ml-context"
       /\ returned[k].reprocessed
       /\ returned[k].type = "lyric"
       /\ returned[k].confidence # pass1Results[k].confidence
       /\ \E c \in DOMAIN calls :
            /\ calls[c].pass = 2
            /\ calls[c].index = k
            /\ calls[c].surroundingLyricCount >= 3

\* the surrounding-lyric counts pass 2 computed for line k
Pass2Counts(k) ==
  {calls[c].surroundingLyricCount :
     c \in {d \in DOMAIN calls : calls[d].pass = 2 /\ calls[d].index = k}}

\* C38: a line reprocessed in pass 2 with a surrounding-lyric count below 3
\* keeps its pass-1 type, confidence and method, and gains the reprocessed
\* tag only; the verdict of a line differs from its pass-1 verdict only where
\* pass 2 counted three or more Lyric neighbours within two lines of it.
C38_SameBelowThreeLyrics ==
  \A k \in DOMAIN pass1Results :
    /\ (results[k].reprocessed /\ \E c \in Pass2Counts(k) : c < 3)
         => results[k] = [pass1Results[k] EXCEPT !.reprocessed = TRUE]
    /\ ~SameVerdict(results[k], pass1Results[k])
         => /\ results[k].reprocessed
            /\ \E c \in Pass2Counts(k) : c >= 3

\* one line was reprocessed among fewer than three lyrics and kept its
\* verdict, another among three or more and changed its type
C38_Witness ==
  /\ pc = "returned"
  /\ \E k \in DOMAIN returned :
       /\ returned[k].reprocessed
       /\ returned[k].method = "ml-context"
       /\ \E c \in Pass2Counts(k) : c < 3
       /\ SameVerdict(returned[k], pass1Results[k])
  /\ \E k \in DOMAIN returned :
       /\ returned[k].reprocessed
       /\ \E c \in Pass2Counts(k) : c >= 3
       /\ returned[k].type # pass1Results[k].type

\* type, method and confidence of one result agree
Consistent(r) ==
  /\ r.type = "empty" => (r.method = "rule" /\ r.confidence = Unit)
  /\ r.method = "heuristic-length" => (r.type = "lyric" /\ r.confidence = 950000)
  /\ r.method = "heuristic-exclamation"
       => (r.type = "lyric" /\ r.confidence = 850000)
  /\ r.type = "uncertain"
       => (r.method = "ml-context" /\ r.confidence < CONFIDENCE_THRESHOLD)
  /\ (r.type = "lyric" /\ r.method = "ml-context")
       => r.confidence >= CONFIDENCE_THRESHOLD
  /\ (r.type = "header" /\ r.method = "ml-context"
        /\ r.confidence < CONFIDENCE_THRESHOLD)
       => (r.features.isSuspicious /\ r.bias = "suspicious-pattern")

\* C39: in every result classifyLines returns, type, method and confidence
\* are consistent: Empty only with method rule and confidence 1.0, the
\* heuristic methods only with Lyric (0.95 and 0.85), Uncertain only with
\* method ml-context and a confidence below 0.10, an ml-context Lyric only
\* with a confidence of at least 0.10, and an ml-context Header below 0.10
\* only for a suspicious line with the bias recorded; the same holds of the
\* results array while the passes run.
C39_ResultsConsistent ==
  /\ \A k \in DOMAIN results : Consistent(results[k])
  /\ pc = "returned" => \A k \in DOMAIN returned : Consistent(returned[k])

\* a returned array holding an empty line, a lyric the length rule decided,
\* and a suspicious line the model left below the threshold, made Header by
\* the bias in pass 2
C39_Witness ==
  /\ pc = "returned"
  /\ \E k \in DOMAIN returned : returned[k].type = "empty"
  /\ \E k \in DOMAIN returned : returned[k].method = "heuristic-length"
  /\ \E k \in DOMAIN returned :
       /\ returned[k].type = "header"
       /\ returned[k].method = "ml-context"
       /\ returned[k].confidence < CONFIDENCE_THRESHOLD
       /\ returned[k].bias = "suspicious-pattern"
       /\ returned[k].reprocessed

=========================================================================
